---- MODULE Spec2Model ----
(***************************************************************************)
(* Model of the MiningHub project assembly core:                           *)
(*   core/models.py    Project, Company, CompanyRelationship               *)
(*   core/assembly.py  CompanyResolver, ProjectAssembler                   *)
(* The providers (relationships API, page scraper) are the environment:    *)
(* each call returns one of the responses of a menu.  A worker of the      *)
(* thread pool takes one step per provider call (the suspension points).   *)
(***************************************************************************)
EXTENDS FiniteSets, Integers, Sequences, TLC

\* ---------------------------------------------------------------- bounds
MaxId == 2
MaxBatches == 2
PoolBatch == 5
MaxErrors == 1
MaxGid == 3
MaxEntity == 2
AppBatchSize == 1
MaxRetries == 2
MaxTime == 4
PaceWorkers == 2
MaxRequests == 3
MaxFamily == 2
MaxRows == 2
MaxScraped == 2
MaxTasks == 3
MaxConcurrency == 2

\* ------------------------------------------------------ program constants
PoolWorkers == 4
HashModulus == 100000
FullPercentage == 100
\* _create_test_missing_ids_report: start_idx and the default of MAX_MISSING_PROJECTS
start_idx == 100
max_test_projects == 40
NoPct == -1
NoStatus == 999
\* GeocodingConfig.delay_seconds, in half seconds
DelaySeconds == 2

None == "None"

Truthy(v) == v \notin {None, ""}

Min(a, b) == IF a <= b THEN a ELSE b

Max(a, b) == IF a >= b THEN a ELSE b

AllIds == 1 .. Max(MaxId, PoolBatch)

\* ------------------------------------------------------------ enumerations
DataSource == {"api", "relationships", "scraper", "url_file"}

ProcessingStage == {"discovered", "assembling", "assembled", "failed", "completed"}

RelationshipType == {"jv", "option", "nsr", "operator"}

\* ------------------------------------------------------------ value types
Company(id, name, src) == [id |-> id, name |-> name, data_source |-> src]

NoCompany == Company(None, None, None)

CompanyRelationship(cid, cname, type, pct, details, src) ==
    [company_id |-> cid, company_name |-> cname, relationship_type |-> type,
     percentage |-> pct, company_details |-> details, data_source |-> src]

\* A latitude or longitude that is None.
NoCoord == -1

ProjectLocation(location_string, latitude, longitude, country, state, location_source) ==
    [location_string |-> location_string, latitude |-> latitude,
     longitude |-> longitude, country |-> country, state |-> state,
     geocoded |-> None, location_source |-> location_source, postcode |-> None,
     iso3166_2 |-> None, county |-> None, territory |-> None]

\* ProjectLocation(): every field at its default.
EmptyLocation == ProjectLocation(None, NoCoord, NoCoord, None, None, None)

Project(gid, name, location, operator, rels, primary, sources, stage, url, errors) ==
    [gid |-> gid, name |-> name, location |-> location, operator |-> operator,
     company_relationships |-> rels, primary_company |-> primary,
     data_sources |-> sources, processing_stage |-> stage,
     project_url |-> url, errors |-> errors]

NoProject ==
    Project(0, None, EmptyLocation, None, <<>>, NoCompany, {}, None, None, <<>>)

\* A JSON list where the operator name is expected: truthy and not hashable.
UnhashableOperator == "['Acme', 'Beta']"

Hashable(v) == v # UnhashableOperator

\* The seed that salts str hashes: the interpreter draws it when the process
\* starts (PYTHONHASHSEED unset).
VARIABLE hash_seed

HashSeeds == {0, 1}

\* hash(str) of the running interpreter: a fixed function within one process,
\* another one under another seed.
hash(s) ==
    CASE s = "Acme" -> 7048213 + 40503 * hash_seed
      [] s = "Beta" -> 311 + 977 * hash_seed
      [] OTHER -> 99 + 13 * hash_seed

OperatorId(name) == "operator_" \o ToString(hash(name) % HashModulus)

\* ---------------------------------------------------------------- Project
\* The 'location' texts of the API data, and what split(', ') gives for them.
LocationTexts == {"Queensland, Australia", "Australia", " australia"}

LastPart(location) == IF location = "Queensland, Australia" THEN "Australia" ELSE location

FirstPart(location) == IF location = "Queensland, Australia" THEN "Queensland" ELSE location

HasComma(location) == location = "Queensland, Australia"

\* centroid.coordinates is [longitude, latitude], possibly shorter.
from_centroid(centroid, location, country, state, location_source) ==
    ProjectLocation(location,
                    IF Len(centroid) > 1 THEN centroid[2] ELSE NoCoord,
                    IF Len(centroid) > 0 THEN centroid[1] ELSE NoCoord,
                    country, state, location_source)

from_api_data(api_data, gid) ==
    Project(gid, api_data.project_name,
            from_centroid(api_data.centroid, api_data.location,
                          IF Truthy(api_data.location) THEN LastPart(api_data.location)
                          ELSE None,
                          IF Truthy(api_data.location) /\ HasComma(api_data.location)
                          THEN FirstPart(api_data.location) ELSE None,
                          "api"),
            api_data.operator, <<>>, NoCompany, {"api"}, "discovered", None, <<>>)

\* Mutant: only a project that is being assembled can be completed.
update_stage_fromAssembling(p, stage) ==
    IF stage = "completed" /\ p.processing_stage # "assembling" THEN p
    ELSE [p EXCEPT !.processing_stage = stage]

update_stage(p, stage) == [p EXCEPT !.processing_stage = stage]

add_data_source(p, source) == [p EXCEPT !.data_sources = @ \cup {source}]

add_error(p, error) == [p EXCEPT !.errors = Append(@, error)]

\* ------------------------------------------------- Relationship Provider
\* One entry of a response family; ok = FALSE is an entry that is no mapping
\* (null, a string), on which .get raises.
Entry(id, name, pct, ok) == [id |-> id, company_name |-> name, percentage |-> pct, ok |-> ok]

RelResponse(present, jv, nsrs, option) ==
    [present |-> present, jv |-> jv, nsrs |-> nsrs, option |-> option]

\* get_project_relationships returned None or {} (also after a request failure).
RespNone == RelResponse(FALSE, <<>>, <<>>, <<>>)

RespFamiliesEmpty == RelResponse(TRUE, <<>>, <<>>, <<>>)

RespOwnership ==
    RelResponse(TRUE,
                <<Entry("c1", "Alpha", 40, TRUE), Entry("c2", "Bravo", 65, TRUE)>>,
                <<>>,
                << <<Entry("c3", "Charlie", NoPct, TRUE)>> >>)

RespRoyaltyFirst ==
    RelResponse(TRUE, <<>>, <<Entry("c3", "Charlie", 2, TRUE)>>, <<>>)

RespTie ==
    RelResponse(TRUE,
                <<Entry("c1", "Alpha", NoPct, TRUE), Entry("c2", "Bravo", 0, TRUE)>>,
                <<>>, <<>>)

RespMalformed ==
    RelResponse(TRUE,
                <<Entry("c1", "Alpha", 40, TRUE), Entry(None, None, NoPct, FALSE)>>,
                <<>>, <<>>)

RelResponses ==
    {RespNone, RespFamiliesEmpty, RespOwnership, RespRoyaltyFirst, RespTie, RespMalformed}

Flatten_firstArray(arrays) ==
    IF arrays = <<>> THEN <<>> ELSE Head(arrays)

RECURSIVE Flatten(_)
Flatten(arrays) ==
    IF arrays = <<>> THEN <<>> ELSE Head(arrays) \o Flatten(Tail(arrays))

_create_company_from_api_data(company_data) ==
    Company(company_data.id, company_data.company_name, "relationships")

ConvertEntry(e, type) ==
    CompanyRelationship(e.id, e.company_name, type,
                        IF type = "option" THEN NoPct ELSE e.percentage,
                        _create_company_from_api_data(e), "relationships")

ConvertFamily(entries, type) ==
    [i \in DOMAIN entries |-> ConvertEntry(entries[i], type)]

\* An entry that is no mapping raises inside the try block.
ConversionRaises(resp) ==
    \E e \in {resp.jv[i] : i \in DOMAIN resp.jv}
             \cup {resp.nsrs[i] : i \in DOMAIN resp.nsrs}
             \cup {Flatten(resp.option)[i] : i \in DOMAIN Flatten(resp.option)} : ~e.ok

\* The conversions made before the entry that raises are kept.
RECURSIVE ConvertedBeforeRaise(_, _)
ConvertedBeforeRaise(entries, types) ==
    IF entries = <<>> \/ ~Head(entries).ok THEN <<>>
    ELSE <<ConvertEntry(Head(entries), Head(types))>>
         \o ConvertedBeforeRaise(Tail(entries), Tail(types))

_resolve_from_relationships_partial(resp) ==
    IF ~resp.present THEN <<>>
    ELSE ConvertedBeforeRaise(resp.jv \o resp.nsrs \o Flatten(resp.option),
                              [i \in DOMAIN resp.jv |-> "jv"]
                              \o [i \in DOMAIN resp.nsrs |-> "nsr"]
                              \o [i \in DOMAIN Flatten(resp.option) |-> "option"])

_resolve_from_relationships(resp) ==
    IF ~resp.present THEN <<>>
    ELSE IF ConversionRaises(resp) THEN <<>>
    ELSE ConvertFamily(resp.jv, "jv") \o ConvertFamily(resp.nsrs, "nsr")
         \o ConvertFamily(Flatten(resp.option), "option")

\* --------------------------------------------------------- Scrape Provider
\* What asyncio.run(scrape_many_parallel([gid])) gives: it raises, returns no
\* record, or returns one record.
ScrapeResult(kind, cid, cname, operator, pname) ==
    [kind |-> kind, company_id |-> cid, company_name |-> cname,
     operator |-> operator, project_name |-> pname]

ScrapeRaises == ScrapeResult("raise", None, None, None, None)

ScrapeEmpty == ScrapeResult("empty", None, None, None, None)

ScrapeNamed == ScrapeResult("rec", None, "Acme", "Acme", "Acme Pit")

ScrapeIdOnly == ScrapeResult("rec", "c7", None, None, "Delta Lode")

ScrapeBare == ScrapeResult("rec", None, None, None, None)

ScrapeResponses == {ScrapeRaises, ScrapeEmpty, ScrapeNamed, ScrapeIdOnly, ScrapeBare}

\* Mutant: the relationship is tagged with the source of the safe data.
_resolve_from_scraper_taggedApi(s) ==
    IF ~(s.kind = "rec" /\ (Truthy(s.company_id) \/ Truthy(s.company_name))) THEN <<>>
    ELSE << CompanyRelationship(s.company_id, s.company_name, "operator", NoPct,
                                Company(s.company_id, s.company_name, "api"), "api") >>

_resolve_from_scraper(s) ==
    IF s.kind # "rec" THEN <<>>
    ELSE LET company_id == s.company_id
             company_name == IF Truthy(s.company_name) THEN s.company_name ELSE s.operator
         IN IF ~(Truthy(company_id) \/ Truthy(company_name)) THEN <<>>
            ELSE LET details ==
                         Company(IF Truthy(company_id) THEN company_id
                                 ELSE OperatorId(company_name),
                                 IF Truthy(company_name) THEN company_name
                                 ELSE "Unknown Company",
                                 "scraper")
                 IN << CompanyRelationship(details.id, details.name, "operator",
                                           NoPct, details, "scraper") >>

\* ------------------------------------------------- operator-fallback tier
_create_company_from_operator(operator) ==
    Company(OperatorId(operator), operator, "api")

\* hash() of an operator value that is not hashable raises TypeError; nothing
\* in resolve_companies catches it.
OperatorTierRaises(project_data) ==
    Truthy(project_data.operator) /\ ~Hashable(project_data.operator)

OperatorTier(project_data) ==
    IF ~Truthy(project_data.operator) THEN <<>>
    ELSE LET operator_company == _create_company_from_operator(project_data.operator)
         IN << CompanyRelationship(operator_company.id, operator_company.name,
                                   "operator", FullPercentage, operator_company,
                                   "api") >>

\* Mutant: a later tier is tried whatever the earlier tiers gave.
NeedsNextTier_always(relationships) == TRUE

\* "if not relationships:" before the scrape tier and the operator tier.
NeedsNextTier(relationships) == relationships = <<>>

\* ------------------------------------------------------- resolution cache
NotCached == [cached |-> FALSE, rels |-> <<>>]

\* Mutant: an empty cached result counts as no entry.
CacheHit_nonEmpty(cache, gid) == cache[gid].cached /\ cache[gid].rels # <<>>

CacheHit(cache, gid) == cache[gid].cached

\* Mutant: only a non-empty result is memoized.
CacheStore_nonEmptyOnly(cache, gid, rels) ==
    IF rels = <<>> THEN cache
    ELSE [cache EXCEPT ![gid] = [cached |-> TRUE, rels |-> rels]]

CacheStore(cache, gid, rels) == [cache EXCEPT ![gid] = [cached |-> TRUE, rels |-> rels]]

\* ------------------------------------------------------ GeocodingService
\* Coordinates are counted in units of 10^-9 degree; the cache key and the
\* request carry them with eight decimals (f"{x:.8f}").
CoordKey(x) == (x + 5) \div 10

RevKey(latitude, longitude) ==
    "rev:" \o ToString(CoordKey(latitude)) \o "," \o ToString(CoordKey(longitude))

\* ' '.join(location.strip().split())
NormText(location) == IF location = " australia" THEN "australia" ELSE location

\* str.lower()
Lower(text) ==
    CASE text = "Australia" -> "australia"
      [] text = "Queensland, Australia" -> "queensland, australia"
      [] OTHER -> text

FwdKey(location) == "fwd:" \o Lower(NormText(location))

\* A key that the JSON object of the provider does not carry.
Absent == "Absent"

Address(state, territory, country, postcode, iso4, county) ==
    [state |-> state, state_district |-> Absent, region |-> Absent,
     province |-> Absent, territory |-> territory, country |-> country,
     postcode |-> postcode, iso_lvl4 |-> iso4, iso_lvl6 |-> Absent,
     county |-> county]

EmptyAddress == Address(Absent, Absent, Absent, Absent, Absent, Absent)

\* What reverse_geocode / forward_geocode return: a JSON object, or None.
GeoData(found, lat, lon, has_address, address) ==
    [found |-> found, lat |-> lat, lon |-> lon, has_address |-> has_address,
     address |-> address]

NoResult == GeoData(FALSE, NoCoord, NoCoord, FALSE, EmptyAddress)

\* The provider's answer to one request: a failure (status other than 200, or
\* an exception), or status 200 with the decoded body.
GeoResponse(ok, data) == [ok |-> ok, data |-> data]

GeoFailure == GeoResponse(FALSE, NoResult)

GeoNothing == GeoResponse(TRUE, NoResult)

GeoNoAddress == GeoResponse(TRUE, GeoData(TRUE, NoCoord, NoCoord, FALSE, EmptyAddress))

GeoFull ==
    GeoResponse(TRUE,
                GeoData(TRUE, 275, 1534, TRUE,
                        Address("New South Wales", Absent, "Commonwealth of Australia",
                                "2000", "AU-NSW", "Sydney")))

GeoSparse ==
    GeoResponse(TRUE,
                GeoData(TRUE, 275, NoCoord, TRUE,
                        Address(Absent, "Northern Territory", Absent, Absent, Absent,
                                Absent)))

GeoResponses == {GeoFailure, GeoNothing, GeoNoAddress, GeoFull, GeoSparse}

\* "key in self.cache"
GeoCached(c, key) == key \in DOMAIN c

\* Mutant: a failed lookup leaves no entry.
GeoStore_resultsOnly(c, key, resp) ==
    IF ~resp.ok THEN c
    ELSE [k \in DOMAIN c \cup {key} |-> IF k = key THEN resp.data ELSE c[k]]

\* self.cache[key] = data after status 200, self.cache[key] = None otherwise.
GeoStore(c, key, resp) ==
    [k \in DOMAIN c \cup {key} |->
        IF k = key THEN (IF resp.ok THEN resp.data ELSE NoResult) ELSE c[k]]

\* ------------------------------------------------ _maybe_enrich_location
\* dict.get(key, default)
Get(addr, key, default) == IF addr[key] = Absent THEN default ELSE addr[key]

\* "a or b"
Or(a, b) == IF Truthy(a) THEN a ELSE b

StateOf(addr) ==
    Or(Get(addr, "state", None),
       Or(Get(addr, "state_district", None),
          Or(Get(addr, "region", None),
             Or(Get(addr, "province", None), Get(addr, "territory", None)))))

\* Mutant: the state is taken to be missing.
have_state_never(loc) == FALSE

have_state(loc) == Truthy(loc.state)

have_coords(loc) == loc.latitude # NoCoord /\ loc.longitude # NoCoord

\* Which geocoder call _maybe_enrich_location makes for a location.
EnrichBranch(loc) ==
    IF have_coords(loc) /\ ~have_state(loc) THEN "reverse"
    ELSE IF ~have_coords(loc) /\ Truthy(loc.location_string) /\ ~have_state(loc)
         THEN "forward"
    ELSE "none"

GeoKey(loc) ==
    IF EnrichBranch(loc) = "reverse" THEN RevKey(loc.latitude, loc.longitude)
    ELSE FwdKey(loc.location_string)

\* The fields both branches write from the address.
ApplyAddress(loc, addr) ==
    [loc EXCEPT !.state = Or(StateOf(addr), @),
                !.country = Get(addr, "country", @),
                !.postcode = Get(addr, "postcode", None),
                !.iso3166_2 = Or(Get(addr, "iso_lvl4", None), Get(addr, "iso_lvl6", None)),
                !.county = Get(addr, "county", None),
                !.territory = Get(addr, "territory", None),
                !.geocoded = "True",
                !.location_source = Or(@, "geocode")]

\* "if data and 'address' in data" for the reverse branch, "if data" for the
\* forward branch.
GeoApplies(branch, data) ==
    \/ branch = "reverse" /\ data.found /\ data.has_address
    \/ branch = "forward" /\ data.found

ApplyGeocode(loc, branch, data) ==
    IF ~GeoApplies(branch, data) THEN loc
    ELSE IF branch = "reverse" THEN ApplyAddress(loc, data.address)
    ELSE ApplyAddress([loc EXCEPT !.latitude = IF data.lat # NoCoord THEN data.lat ELSE @,
                                  !.longitude = IF data.lon # NoCoord THEN data.lon ELSE @],
                      data.address)

\* ------------------------------------------------------- fetch_map_center
McNone == [kind |-> "none", latitude |-> NoCoord, longitude |-> NoCoord]

McRaises == [kind |-> "raise", latitude |-> NoCoord, longitude |-> NoCoord]

McCenter == [kind |-> "center", latitude |-> 271, longitude |-> 1534]

McResponses == {McNone, McRaises, McCenter}

NeedsMapCenter(loc) == loc.latitude = NoCoord \/ loc.longitude = NoCoord

\* Mutant: the map center always names itself as the source.
ApplyMapCenter_overwritesSource(loc, mc) ==
    IF mc.kind # "center" THEN loc
    ELSE [loc EXCEPT !.latitude = mc.latitude, !.longitude = mc.longitude,
                     !.location_source = "scraper_map"]

ApplyMapCenter(loc, mc) ==
    IF mc.kind # "center" THEN loc
    ELSE [loc EXCEPT !.latitude = mc.latitude, !.longitude = mc.longitude,
                     !.location_source = Or(@, "scraper_map")]

\* ------------------------------------------------------- ProjectAssembler
\* gid_to_country_cache entry: the safe data of a gid, or nothing.
SafeData(operator, pname, location, centroid) ==
    [present |-> TRUE, operator |-> operator, project_name |-> pname,
     location |-> location, centroid |-> centroid]

NoData == [present |-> FALSE, operator |-> None, project_name |-> None,
           location |-> None, centroid |-> <<>>]

\* found_urls.xlsx as loaded by _load_project_urls.
project_urls(gid) == IF gid = 1 THEN "https://mininghub.com/project-profile?gid=1" ELSE None

\* "r.percentage or 0"
PctKey(r) == IF r.percentage = NoPct THEN 0 ELSE r.percentage

\* max(seq, key=...) returns the first element that carries the maximum.
FirstMax(seq) ==
    seq[CHOOSE i \in DOMAIN seq :
            /\ \A j \in DOMAIN seq : PctKey(seq[j]) <= PctKey(seq[i])
            /\ \A j \in 1 .. (i - 1) : PctKey(seq[j]) < PctKey(seq[i])]

IsJV(r) == r.relationship_type = "jv"

SelectPrimary(relationships) ==
    LET jv_relationships == SelectSeq(relationships, IsJV)
    IN IF jv_relationships # <<>> THEN FirstMax(jv_relationships).company_details
       ELSE relationships[1].company_details

RelSources(relationships) == {relationships[i].data_source : i \in DOMAIN relationships}

FallbackOperator(primary, relationships) ==
    IF primary # NoCompany /\ Truthy(primary.name) THEN primary.name
    ELSE IF relationships # <<>> /\ Truthy(relationships[1].company_name)
         THEN relationships[1].company_name
    ELSE None

BackfillOperator(p, relationships) ==
    IF Truthy(p.operator) THEN p
    ELSE LET op == FallbackOperator(p.primary_company, relationships)
         IN IF Truthy(op) THEN [p EXCEPT !.operator = op] ELSE p

\* Mutant: the provenance set is rebuilt from the relationships alone.
AttachToProject_resetSources(p, relationships) ==
    BackfillOperator(
        [p EXCEPT !.company_relationships = relationships,
                  !.primary_company = SelectPrimary(relationships),
                  !.data_sources = RelSources(relationships)],
        relationships)

\* The project built from safe data receives the relationships.
AttachToProject(p, relationships) ==
    BackfillOperator(
        [p EXCEPT !.company_relationships = relationships,
                  !.primary_company = SelectPrimary(relationships),
                  !.data_sources = @ \cup RelSources(relationships)],
        relationships)

\* Steps 1 to 3: the base project, with its URL, when safe data is cached.
BaseProject(project_data, gid) ==
    IF ~project_data.present THEN NoProject
    ELSE LET p == from_api_data(project_data, gid)
         IN IF Truthy(project_urls(gid)) THEN [p EXCEPT !.project_url = project_urls(gid)]
            ELSE p

\* What _process_single_project holds once resolve_companies has returned.
AfterResolve(p, relationships) ==
    IF p # NoProject /\ relationships # <<>> THEN AttachToProject(p, relationships) ELSE p

MinimalProject(rec, gid) ==
    Project(gid, IF Truthy(rec.project_name) THEN rec.project_name ELSE "",
            EmptyLocation, rec.operator, <<>>, NoCompany, {"scraper"}, "discovered",
            project_urls(gid), <<>>)

\* The project built from the scraper receives the relationships.
AttachToScraped(p, relationships) ==
    IF relationships = <<>> THEN p
    ELSE LET q == [p EXCEPT !.company_relationships = relationships,
                            !.data_sources = @ \cup RelSources(relationships)]
             r == IF q.primary_company = NoCompany
                  THEN [q EXCEPT !.primary_company = relationships[1].company_details]
                  ELSE q
         IN BackfillOperator(r, relationships)

\* Mutant: one thread per submitted id.
max_workers_perId(n) == IF n > 0 THEN n ELSE 1

max_workers(n) == IF n > 0 THEN Min(PoolWorkers, n) ELSE 1

\* AssemblyResult of one process_batch call.
EmptyResult == [completed |-> 0, failed |-> 0, projects |-> <<>>, errors |-> <<>>]

\* Mutant: the project is kept but not counted.
CollectProject_uncounted(result, p) == [result EXCEPT !.projects = Append(@, p)]

CollectProject(result, p) ==
    [result EXCEPT !.projects = Append(@, p), !.completed = @ + 1]

\* Mutant: the failure is counted but leaves no entry in errors.
CollectFailure_silent(result, gid) == [result EXCEPT !.failed = @ + 1]

CollectFailure(result, gid) ==
    [result EXCEPT !.failed = @ + 1,
                   !.errors = Append(@, [text |-> "Failed to process project", gid |-> gid])]


\* ProcessingMetrics counters written for a collected project.
CountCompleted(m, p) ==
    [m EXCEPT !.completed_projects = @ + 1,
              !.relationships_enriched =
                  IF p.primary_company # NoCompany
                     /\ p.primary_company.data_source = "relationships"
                  THEN @ + 1 ELSE @,
              !.api_projects = IF "api" \in p.data_sources THEN @ + 1 ELSE @]

\* ------------------------------------------------------------------ state
VARIABLES
    gid_to_country_cache,   \* ProjectAssembler: safe data preloaded per gid
    relMenu,                \* responses the Relationship Provider may give
    scrapeMenu,             \* results the Scrape Provider may give
    batchMenu,              \* batches the caller may submit
    batchesLeft,            \* process_batch calls the caller still makes
    resolution_cache,       \* CompanyResolver.resolution_cache
    gids,                   \* process_batch: the batch
    bpc,                    \* process_batch: "idle" | "running"
    pc,                     \* per future: position of its pipeline
    project,                \* per future: local 'project' / the future's result
    relationships,          \* per future: local 'relationships'
    result,                 \* process_batch: AssemblyResult
    metrics,                \* ProjectAssembler.metrics
    trace,                  \* per future: history of its pipeline
    firstReturn,            \* per gid: what the first resolve_companies returned
    obj,                    \* a Project value under its copy-on-write methods
    mcMenu,                 \* results fetch_map_center may give
    geoMenu,                \* answers the geocoding provider may give
    enable_geocoding,       \* ProjectAssembler.enable_geocoding (ENABLE_GEOCODING)
    geocoding_cache,        \* GeocodingService.cache
    geoReturned,            \* cache keys for which a geocoder call has returned
    running,                \* Application.running, cleared by the signal handler
    saved,                  \* <<name, id>> of the operator companies that earlier
                            \* runs of the program wrote to the output files
    countries,              \* DiscoveryConfig.countries
    max_projects,           \* DiscoveryConfig.max_projects (0: None)
    registry,               \* the Projects sheet of found_urls.xlsx
    dpc,                    \* find_all_gids: "off" | "api" | "urls" | "combine" | "done"
    api_gids,               \* find_all_gids / _get_gids_from_api: ids collected
    url_gids,               \* find_all_gids: ids of the registry
    all_gids,               \* find_all_gids: the set it returns
    fetched,                \* what the Query Provider gave, country by country
    discovery_metrics,      \* ProjectDiscovery.metrics
    test_mode,              \* MiningProjectsProcessor.config["_TEST_MODE_ACTIVE"]
    api_project_ids,        \* _create_coverage_report: project ids of the API data
    api_company_ids,        \* _create_coverage_report: company ids of the API data
    processor_project_urls, \* MiningProjectsProcessor.project_urls (id -> URL)
    processor_company_urls, \* MiningProjectsProcessor.company_urls (id -> URL)
    missing_data,           \* the rows of missing_ids_report.csv
    rpc,                    \* position in the coverage report
    apc,                    \* position in Application.run_assembly
    loop_i,                 \* run_assembly: i of the batch loop
    batch,                  \* run_assembly: batch
    all_projects,           \* run_assembly: all_projects
    run_totals,             \* run_assembly: total_completed, total_failed
    stored,                 \* what ProjectStorage.save_projects was given
    closed,                 \* assembler.close() was called
    cancelled_in_batch,     \* history: the shutdown flag was set during a batch
    retry_attempts,         \* APIConfig.retry_attempts
    endpoint,               \* which public method called _make_request
    attempt,                \* _make_request: attempt of the retry loop
    req_pc,                 \* position in the request
    req_history,            \* history: what each session.request call met
    req_value,              \* what _make_request returned
    caller_value,           \* what the public method returned
    now,                    \* time.time(), in half seconds
    last_request_time,      \* GeocodingService.last_request_time
    wpc,                    \* per worker: position in its geocoder lookup
    wake,                   \* per worker: when its time.sleep ends
    sent,                   \* history: the times at which requests went out
    company_urls,           \* MiningProjectsProcessor.company_urls: the ids with a URL
    df,                     \* process_country: the rows of the country's projects
    row_i,                  \* _organize_by_companies: the rows done
    company_data,           \* MiningProjectsProcessor.company_data: id -> gids
    orphaned_projects,      \* MiningProjectsProcessor.orphaned_projects
    scraped_projects,       \* scraped_projects.json
    companies_file,         \* companies_with_projects.json
    all_rows,               \* unified frame: the rows of the orphaned projects
    opc,                    \* position of the processor run
    par_gids,               \* scrape_many_parallel: gids
    max_concurrency,        \* scrape_many_parallel: max_concurrency
    tpc,                    \* per bound_scrape task: its position
    results,                \* scrape_many_parallel: results
    scrape_raised,          \* history: the gids whose scrape_one raised
    browser,                \* the Chromium browser of the scraper
    ppc                     \* position of scrape_many_parallel

env == <<gid_to_country_cache, relMenu, scrapeMenu, batchMenu, mcMenu, geoMenu,
         enable_geocoding>>

geo == <<geocoding_cache, geoReturned>>

disc == <<countries, max_projects, registry, dpc, api_gids, url_gids, all_gids,
          fetched, discovery_metrics>>

recon == <<test_mode, api_project_ids, api_company_ids, processor_project_urls,
           processor_company_urls,
           missing_data, rpc>>

app == <<running, hash_seed, saved>>

run == <<apc, loop_i, batch, all_projects, run_totals, stored, closed, cancelled_in_batch>>

req == <<retry_attempts, endpoint, attempt, req_pc, req_history, req_value, caller_value>>

pace == <<now, last_request_time, wpc, wake, sent>>

\* The components that are modelled on their own.
orph == <<company_urls, df, row_i, company_data, orphaned_projects, scraped_projects,
          companies_file, all_rows, opc>>

par == <<par_gids, max_concurrency, tpc, results, scrape_raised, browser, ppc>>

more == <<pace, orph, par>>

rest == <<app, disc, recon, run, req, more>>

asm == <<batchesLeft, resolution_cache, gids, bpc, pc, project, relationships,
         result, metrics, trace, firstReturn, obj, geo>>

vars == <<env, asm, rest>>

\* What the steps of one component leave alone.
notDisc == <<env, asm, app, recon, run, req, more>>

notRecon == <<env, asm, app, disc, run, req, more>>

notRun == <<env, asm, app, disc, recon, req, more>>

notReq == <<env, asm, app, disc, recon, run, more>>

core == <<env, asm, app, disc, recon, run, req>>

notPace == <<core, orph, par>>

notOrph == <<core, pace, par>>

notPar == <<core, pace, orph>>

ActivePcs == {"tier1", "tier2", "tier3", "scrape", "finalize", "enrich", "geocall"}

Running == Cardinality({t \in DOMAIN pc : pc[t] \in ActivePcs})

NewTrace == [tiers |-> <<>>, later |-> FALSE, raised |-> FALSE, scraped |-> FALSE,
             dsHist |-> <<>>, locBefore |-> EmptyLocation, geoApplied |-> FALSE,
             geoGot |-> NoResult, geoFromCache |-> FALSE, rec |-> ScrapeEmpty]

TierEntry(name, rels) == [tier |-> name, empty |-> rels = <<>>]

NoReturn == [returned |-> FALSE, rels |-> <<>>]

\* A batch holds each id once (discovery hands over a set): the non-empty
\* subsets of S in ascending order, and the empty batch.
Batches(S) ==
    {b \in UNION {[1 .. n -> S] : n \in 0 .. Cardinality(S)} :
        \A i, j \in DOMAIN b : i < j => b[i] < b[j]}

Singletons(S) == {<<g>> : g \in S}

\* The preloaded safe data: each id meets each kind of safe data in some world.
SafeDataSeq ==
    <<NoData,
      SafeData(None, "Alpha Creek", "Queensland, Australia", <<1534, 271>>),
      SafeData("Beta", "Beta Ridge", "Australia", <<1534, 271>>),
      SafeData(UnhashableOperator, "Gamma Hill", "Australia", <<>>)>>

World(k) == [g \in AllIds |-> SafeDataSeq[((g + k) % Len(SafeDataSeq)) + 1]]

Worlds == {World(k) : k \in 1 .. Len(SafeDataSeq)}

InitAssembler ==
    /\ resolution_cache = [g \in AllIds |-> NotCached]
    /\ gids = <<>>
    /\ bpc = "idle"
    /\ pc = <<>>
    /\ project = <<>>
    /\ relationships = <<>>
    /\ result = EmptyResult
    /\ metrics = [total_projects |-> 0, completed_projects |-> 0, failed_projects |-> 0,
                  api_projects |-> 0, relationships_enriched |-> 0]
    /\ trace = <<>>
    /\ firstReturn = [g \in AllIds |-> NoReturn]
    /\ geocoding_cache = <<>>
    /\ geoReturned = {}

\* The parts of the program outside the assembler, at rest.
\* found_urls.xlsx: missing, unreadable (read_excel raises), or a sheet of ids.
NoRegistry == [kind |-> "missing", ids |-> {}]

BadRegistry == [kind |-> "unreadable", ids |-> {}]

InitDiscovery ==
    /\ dpc = "off"
    /\ countries = <<>>
    /\ max_projects = 0
    /\ registry = NoRegistry
    /\ api_gids = {}
    /\ url_gids = {}
    /\ all_gids = {}
    /\ fetched = <<>>
    /\ discovery_metrics = [total_projects |-> 0, api_projects |-> 0, errors |-> 0]

InitRecon ==
    /\ rpc = "off"
    /\ test_mode = FALSE
    /\ api_project_ids = {}
    /\ api_company_ids = {}
    /\ processor_project_urls = <<>>
    /\ processor_company_urls = <<>>
    /\ missing_data = <<>>

\* run_assembly is not called.
InitRun ==
    /\ apc = "off"
    /\ loop_i = 0
    /\ batch = <<>>
    /\ all_projects = <<>>
    /\ run_totals = [completed |-> 0, failed |-> 0]
    /\ stored = <<>>
    /\ closed = FALSE
    /\ cancelled_in_batch = FALSE

\* No geocoder lookup is under way.
InitPace ==
    /\ now = DelaySeconds
    /\ last_request_time = 0
    /\ wpc = <<>>
    /\ wake = <<>>
    /\ sent = <<>>

\* No processor run is under way.
InitOrph ==
    /\ company_urls = {}
    /\ df = <<>>
    /\ row_i = 0
    /\ company_data = <<>>
    /\ orphaned_projects = <<>>
    /\ scraped_projects = <<>>
    /\ companies_file = <<>>
    /\ all_rows = <<>>
    /\ opc = "off"

\* No scrape_many_parallel call is under way.
InitPar ==
    /\ par_gids = <<>>
    /\ max_concurrency = 0
    /\ tpc = <<>>
    /\ results = <<>>
    /\ scrape_raised = {}
    /\ browser = "none"
    /\ ppc = "off"

InitMore == InitPace /\ InitOrph /\ InitPar

\* No request is under way.
InitReq ==
    /\ retry_attempts = 0
    /\ endpoint = "none"
    /\ attempt = 0
    /\ req_pc = "off"
    /\ req_history = <<>>
    /\ req_value = None
    /\ caller_value = None

InitRest ==
    /\ running = TRUE
    /\ hash_seed = 0
    /\ saved = {}
    /\ InitDiscovery
    /\ InitRecon
    /\ InitRun
    /\ InitReq
    /\ InitMore

\* The assembler constructed and never called.
IdleAssembler ==
    /\ gid_to_country_cache = World(1)
    /\ relMenu = {}
    /\ scrapeMenu = {}
    /\ mcMenu = {}
    /\ geoMenu = {}
    /\ enable_geocoding = TRUE
    /\ batchMenu = {}
    /\ batchesLeft = 0
    /\ InitAssembler
    /\ obj = NoProject

InitApp ==
    /\ running = TRUE
    /\ hash_seed = 0
    /\ saved = {}

\* One assembler: either one batch of several ids, worked by the pool, with
\* geocoding switched off, or several process_batch calls of one id each with
\* geocoding on.
Init ==
    /\ gid_to_country_cache \in Worlds
    /\ relMenu = RelResponses
    /\ scrapeMenu = ScrapeResponses
    /\ mcMenu = {McCenter}
    /\ geoMenu = {GeoFull}
    /\ \/ /\ batchMenu = Batches(1 .. MaxId)
          /\ batchesLeft = 1
          /\ enable_geocoding = FALSE
       \/ /\ batchMenu = Singletons(1 .. MaxId)
          /\ batchesLeft = MaxBatches
          /\ enable_geocoding = TRUE
    /\ InitAssembler
    /\ InitRest
    /\ obj = NoProject

\* ---------------------------------------------------------- process_batch
StartBatch(b) ==
    /\ bpc = "idle"
    /\ batchesLeft > 0
    /\ b \in batchMenu
    /\ batchesLeft' = batchesLeft - 1
    /\ gids' = b
    /\ bpc' = "running"
    /\ pc' = [t \in DOMAIN b |-> "queued"]
    /\ project' = [t \in DOMAIN b |-> NoProject]
    /\ relationships' = [t \in DOMAIN b |-> <<>>]
    /\ trace' = [t \in DOMAIN b |-> NewTrace]
    /\ result' = EmptyResult
    /\ metrics' = [metrics EXCEPT !.total_projects = Len(b)]
    /\ UNCHANGED <<env, resolution_cache, firstReturn, obj, geo, rest>>

\* resolve_companies returns 'rels' to _process_single_project, which runs on to
\* its next provider call.
ResolveReturns(t, rels, tr, cache) ==
    LET p == AfterResolve(project[t], rels)
    IN /\ resolution_cache' = cache
       /\ relationships' = [relationships EXCEPT ![t] = rels]
       /\ project' = [project EXCEPT ![t] = p]
       /\ pc' = [pc EXCEPT ![t] = IF p = NoProject THEN "scrape" ELSE "finalize"]
       /\ firstReturn' = IF firstReturn[gids[t]].returned THEN firstReturn
                         ELSE [firstReturn EXCEPT ![gids[t]] =
                                   [returned |-> TRUE, rels |-> rels]]
       /\ trace' = [trace EXCEPT ![t] =
                       [tr EXCEPT !.dsHist = IF p # project[t]
                                             THEN Append(@, p.data_sources) ELSE @]]
       /\ UNCHANGED <<env, batchesLeft, gids, bpc, result, metrics, obj, geo, rest>>

\* A pool worker takes the next queued future: safe data, base project, URL,
\* and the cache lookup of resolve_companies.
Start(t) ==
    /\ bpc = "running"
    /\ pc[t] = "queued"
    /\ \A u \in 1 .. (t - 1) : pc[u] # "queued"
    /\ Running < max_workers(Len(gids))
    /\ LET gid == gids[t]
           base == BaseProject(gid_to_country_cache[gid], gid)
           tr == [NewTrace EXCEPT !.later = firstReturn[gid].returned,
                                  !.dsHist = IF base = NoProject THEN <<>>
                                             ELSE <<base.data_sources>>]
       IN IF CacheHit(resolution_cache, gid)
          THEN LET rels == resolution_cache[gid].rels
                   p == AfterResolve(base, rels)
               IN /\ relationships' = [relationships EXCEPT ![t] = rels]
                  /\ project' = [project EXCEPT ![t] = p]
                  /\ pc' = [pc EXCEPT ![t] = IF p = NoProject THEN "scrape"
                                             ELSE "finalize"]
                  /\ trace' = [trace EXCEPT ![t] =
                                  [tr EXCEPT !.dsHist = IF p # base
                                                        THEN Append(@, p.data_sources)
                                                        ELSE @]]
          ELSE /\ project' = [project EXCEPT ![t] = base]
               /\ pc' = [pc EXCEPT ![t] = "tier1"]
               /\ trace' = [trace EXCEPT ![t] = tr]
               /\ UNCHANGED relationships
    /\ UNCHANGED <<env, batchesLeft, resolution_cache, gids, bpc, result, metrics,
                   firstReturn, obj, geo, rest>>

\* Strategy 1: the relationships API.
Tier1(t) ==
    /\ pc[t] = "tier1"
    /\ \E resp \in relMenu :
          LET api_relationships == _resolve_from_relationships(resp)
              rels == relationships[t] \o api_relationships
              tr == [trace[t] EXCEPT !.tiers =
                        Append(@, TierEntry("relationship", api_relationships))]
          IN IF NeedsNextTier(rels)
             THEN /\ pc' = [pc EXCEPT ![t] = "tier2"]
                  /\ relationships' = [relationships EXCEPT ![t] = rels]
                  /\ trace' = [trace EXCEPT ![t] = tr]
                  /\ UNCHANGED <<env, batchesLeft, resolution_cache, gids, bpc, project,
                                 result, metrics, firstReturn, obj, geo, rest>>
             ELSE ResolveReturns(t, rels, tr, CacheStore(resolution_cache, gids[t], rels))

\* Strategy 2: the scraper.
Tier2(t) ==
    /\ pc[t] = "tier2"
    /\ \E s \in scrapeMenu :
          LET scraped_rel == _resolve_from_scraper(s)
              rels == relationships[t] \o scraped_rel
              tr == [trace[t] EXCEPT !.tiers = Append(@, TierEntry("scrape", scraped_rel)),
                                     !.rec = s]
          IN IF NeedsNextTier(rels)
             THEN /\ pc' = [pc EXCEPT ![t] = "tier3"]
                  /\ relationships' = [relationships EXCEPT ![t] = rels]
                  /\ trace' = [trace EXCEPT ![t] = tr]
                  /\ UNCHANGED <<env, batchesLeft, resolution_cache, gids, bpc, project,
                                 result, metrics, firstReturn, obj, geo, rest>>
             ELSE ResolveReturns(t, rels, tr, CacheStore(resolution_cache, gids[t], rels))

\* Strategy 3: the operator of the safe data ("project_data or {}").
Tier3(t) ==
    /\ pc[t] = "tier3"
    /\ LET project_data == gid_to_country_cache[gids[t]]
           operator_rel == OperatorTier(project_data)
           tr == [trace[t] EXCEPT !.tiers = Append(@, TierEntry("operator", operator_rel))]
       IN IF OperatorTierRaises(project_data)
          THEN \* TypeError leaves resolve_companies; the handler of
               \* _process_single_project returns None.
               /\ pc' = [pc EXCEPT ![t] = "finished"]
               /\ project' = [project EXCEPT ![t] = NoProject]
               /\ trace' = [trace EXCEPT ![t] =
                               [trace[t] EXCEPT !.raised = TRUE,
                                                !.tiers = Append(@, TierEntry("operator", <<>>))]]
               /\ UNCHANGED <<env, batchesLeft, resolution_cache, gids, bpc,
                              relationships, result, metrics, firstReturn, obj, geo, rest>>
          ELSE ResolveReturns(t, relationships[t] \o operator_rel, tr,
                              CacheStore(resolution_cache, gids[t],
                                         relationships[t] \o operator_rel))

\* Step 4 of the pipeline: no safe data, so the scraper is asked for a record.
DirectScrape(t) ==
    /\ pc[t] = "scrape"
    /\ \E s \in scrapeMenu :
          IF s.kind = "rec"
          THEN LET m == MinimalProject(s, gids[t])
                   p == AttachToScraped(m, relationships[t])
               IN /\ project' = [project EXCEPT ![t] = p]
                  /\ pc' = [pc EXCEPT ![t] = "finalize"]
                  /\ trace' = [trace EXCEPT ![t] =
                                  [@ EXCEPT !.scraped = TRUE,
                                            !.dsHist = IF p # m
                                                       THEN <<m.data_sources, p.data_sources>>
                                                       ELSE <<m.data_sources>>]]
          ELSE /\ project' = [project EXCEPT ![t] = NoProject]
               /\ pc' = [pc EXCEPT ![t] = "finished"]
               /\ UNCHANGED trace
    /\ UNCHANGED <<env, batchesLeft, resolution_cache, gids, bpc, relationships,
                   result, metrics, firstReturn, obj, geo, rest>>

\* Step 5: the map center is fetched when a coordinate is missing; a failure
\* of the fetch is logged and the location stays as it is.
MapCenter(t) ==
    /\ pc[t] = "finalize"
    /\ LET loc == project[t].location
       IN IF NeedsMapCenter(loc)
          THEN \E mc \in mcMenu :
                  project' = [project EXCEPT ![t].location = ApplyMapCenter(loc, mc)]
          ELSE UNCHANGED project
    /\ pc' = [pc EXCEPT ![t] = "enrich"]
    /\ UNCHANGED <<env, batchesLeft, resolution_cache, gids, bpc, relationships,
                   result, metrics, trace, firstReturn, obj, geo, rest>>

\* _maybe_enrich_location has returned 'loc'; step 6 sets the stage and the
\* future is done.
Finish(t, loc, tr) ==
    /\ project' = [project EXCEPT ![t] =
                       update_stage([@ EXCEPT !.location = loc], "completed")]
    /\ pc' = [pc EXCEPT ![t] = "finished"]
    /\ trace' = [trace EXCEPT ![t] = tr]

\* _maybe_enrich_location up to the cache lookup of the geocoder call; without
\* a geocoder it returns the project as it is.
Enrich(t) ==
    /\ pc[t] = "enrich"
    /\ LET loc == project[t].location
           branch == EnrichBranch(loc)
           key == GeoKey(loc)
           tr == [trace[t] EXCEPT !.locBefore = loc]
       IN IF ~enable_geocoding \/ branch = "none"
          THEN Finish(t, loc, tr) /\ UNCHANGED geo
          ELSE IF GeoCached(geocoding_cache, key)
          THEN LET data == geocoding_cache[key]
               IN /\ Finish(t, ApplyGeocode(loc, branch, data),
                            [tr EXCEPT !.geoApplied = GeoApplies(branch, data),
                                       !.geoGot = data,
                                       !.geoFromCache = TRUE])
                  /\ geoReturned' = geoReturned \cup {key}
                  /\ UNCHANGED geocoding_cache
          ELSE /\ pc' = [pc EXCEPT ![t] = "geocall"]
               /\ trace' = [trace EXCEPT ![t] = tr]
               /\ UNCHANGED <<project, geo>>
    /\ UNCHANGED <<env, batchesLeft, resolution_cache, gids, bpc, relationships,
                   result, metrics, firstReturn, obj, rest>>

\* The provider answers the request of the geocoder call: the answer is
\* cached and returned, and _maybe_enrich_location applies it.
GeoReturn(t) ==
    /\ pc[t] = "geocall"
    /\ \E resp \in geoMenu :
          LET loc == project[t].location
              branch == EnrichBranch(loc)
              key == GeoKey(loc)
              data == IF resp.ok THEN resp.data ELSE NoResult
          IN /\ geocoding_cache' = GeoStore(geocoding_cache, key, resp)
             /\ geoReturned' = geoReturned \cup {key}
             /\ Finish(t, ApplyGeocode(loc, branch, data),
                       [trace[t] EXCEPT !.geoApplied = GeoApplies(branch, data),
                                        !.geoGot = data])
    /\ UNCHANGED <<env, batchesLeft, resolution_cache, gids, bpc, relationships,
                   result, metrics, firstReturn, obj, rest>>

\* One iteration of the as_completed loop in the submitting thread.
Collect(t) ==
    /\ bpc = "running"
    /\ pc[t] = "finished"
    /\ pc' = [pc EXCEPT ![t] = "collected"]
    /\ IF project[t] # NoProject
       THEN /\ result' = CollectProject(result, project[t])
            /\ metrics' = CountCompleted(metrics, project[t])
       ELSE /\ result' = CollectFailure(result, gids[t])
            /\ metrics' = [metrics EXCEPT !.failed_projects = @ + 1]
    /\ UNCHANGED <<env, batchesLeft, resolution_cache, gids, bpc, project,
                   relationships, trace, firstReturn, obj, geo, rest>>

\* The executor is shut down and process_batch returns 'result'.
ReturnBatch ==
    /\ bpc = "running"
    /\ \A t \in DOMAIN pc : pc[t] = "collected"
    /\ bpc' = "idle"
    /\ UNCHANGED <<env, batchesLeft, resolution_cache, gids, pc, project,
                   relationships, result, metrics, trace, firstReturn, obj, geo, rest>>

WorkerStep ==
    \E t \in DOMAIN pc :
        \/ Start(t) \/ Tier1(t) \/ Tier2(t) \/ Tier3(t) \/ DirectScrape(t)
        \/ MapCenter(t) \/ Enrich(t) \/ GeoReturn(t)

Next ==
    \/ \E b \in batchMenu : StartBatch(b)
    \/ \E t \in DOMAIN pc : Start(t)
    \/ \E t \in DOMAIN pc : Tier1(t)
    \/ \E t \in DOMAIN pc : Tier2(t)
    \/ \E t \in DOMAIN pc : Tier3(t)
    \/ \E t \in DOMAIN pc : DirectScrape(t)
    \/ \E t \in DOMAIN pc : MapCenter(t)
    \/ \E t \in DOMAIN pc : Enrich(t)
    \/ \E t \in DOMAIN pc : GeoReturn(t)
    \/ \E t \in DOMAIN pc : Collect(t)
    \/ ReturnBatch

Spec == Init /\ [][Next]_vars

\* --------------------------------------------------- the pool under load
\* One batch longer than the pool is wide.  The providers have nothing for any
\* id, so each pipeline runs through every tier.  The executor's threads keep
\* taking steps: weak fairness of the workers.
PoolInit ==
    /\ gid_to_country_cache = World(1)
    /\ relMenu = {RespNone}
    /\ scrapeMenu = {ScrapeEmpty}
    /\ mcMenu = {McNone}
    /\ geoMenu = {GeoFailure}
    /\ enable_geocoding = TRUE
    /\ batchMenu = {[i \in 1 .. PoolBatch |-> i]}
    /\ batchesLeft = 1
    /\ InitAssembler
    /\ InitRest
    /\ obj = NoProject

PoolSpec == PoolInit /\ [][Next]_vars /\ WF_vars(WorkerStep)

\* ------------------------------------------- two pipelines that enrich
\* The safe data an id can have, as far as the location goes.
EnrichData ==
    {NoData,
     SafeData("Beta", "Beta Ridge", "Queensland, Australia", <<1534, 271>>),
     SafeData("Beta", "Beta Ridge", "Queensland, Australia", <<>>),
     SafeData("Beta", "Beta Ridge", "Australia", <<1534, 271>>),
     SafeData("Beta", "Beta Ridge", "Australia", <<1534, 274>>),
     SafeData("Beta", "Beta Ridge", "Australia", <<1534>>),
     SafeData("Beta", "Beta Ridge", "Australia", <<>>),
     SafeData("Beta", "Beta Ridge", " australia", <<>>),
     SafeData("Beta", "Beta Ridge", None, <<>>)}

\* One batch of two ids, worked at once, with every answer the map page and
\* the geocoding provider can give.
EnrichInit ==
    /\ gid_to_country_cache \in
           {[g \in AllIds |-> IF g = 1 THEN d1 ELSE d2] : d1, d2 \in EnrichData}
    /\ relMenu = {RespNone, RespOwnership}
    /\ scrapeMenu = {ScrapeEmpty, ScrapeNamed}
    /\ mcMenu = McResponses
    /\ geoMenu = GeoResponses
    /\ enable_geocoding = TRUE
    /\ batchMenu = {<<1, 2>>}
    /\ batchesLeft = 1
    /\ InitAssembler
    /\ InitRest
    /\ obj = NoProject

EnrichSpec == EnrichInit /\ [][Next]_vars

\* ------------------------------- one pipeline, one answer of each lookup
\* One process_batch call of one id; the map page and the geocoding provider
\* each answer in one fixed way, any of their answers.
LookupInit ==
    /\ gid_to_country_cache \in {[g \in AllIds |-> d] : d \in EnrichData}
    /\ relMenu = {RespNone, RespOwnership}
    /\ scrapeMenu = {ScrapeEmpty, ScrapeNamed}
    /\ mcMenu \in {{m} : m \in McResponses}
    /\ geoMenu \in {{g} : g \in GeoResponses}
    /\ enable_geocoding = TRUE
    /\ batchMenu = Singletons(1 .. MaxId)
    /\ batchesLeft = 1
    /\ InitAssembler
    /\ InitRest
    /\ obj = NoProject

LookupSpec == LookupInit /\ [][Next]_vars

\* ------------------------------- CompanyResolver, callers with other data
\* resolve_companies(gid, project_data) takes the safe data from its caller:
\* between two calls the caller may come to hold other data for an id.
OtherSafeData ==
    /\ bpc = "idle"
    /\ batchesLeft > 0
    /\ batchesLeft < MaxBatches
    /\ gid_to_country_cache' \in Worlds \ {gid_to_country_cache}
    /\ UNCHANGED <<relMenu, scrapeMenu, batchMenu, mcMenu, geoMenu, enable_geocoding,
                   asm, rest>>

ResolverInit ==
    /\ gid_to_country_cache \in Worlds
    /\ relMenu = {RespNone, RespOwnership}
    /\ scrapeMenu = {ScrapeEmpty, ScrapeNamed}
    /\ mcMenu = {McNone}
    /\ geoMenu = {GeoFailure}
    /\ enable_geocoding = TRUE
    /\ batchMenu = Singletons(1 .. MaxId)
    /\ batchesLeft = MaxBatches
    /\ InitAssembler
    /\ InitRest
    /\ obj = NoProject

ResolverNext == Next \/ OtherSafeData

ResolverSpec == ResolverInit /\ [][ResolverNext]_vars

\* ------------------------------------------- the program is run again
\* <<name, id>> of the companies the operator tier made, in a set of projects.
OperatorCompanies(projects) ==
    {<<r.company_name, r.company_id>> :
        r \in {q \in UNION {{p.company_relationships[i] : i \in DOMAIN p.company_relationships} :
                               p \in projects} :
                  q.relationship_type = "operator" /\ q.data_source = "api"}}

\* The process has ended after a batch, its projects are in the output files,
\* and a new process starts: a new hash seed, a new assembler.  The geocoding
\* cache is a file and is loaded again.
Restart ==
    /\ bpc = "idle"
    /\ batchesLeft < MaxBatches
    /\ saved' = saved \cup OperatorCompanies({result.projects[i] : i \in DOMAIN result.projects})
    /\ hash_seed' \in HashSeeds
    /\ batchesLeft' = MaxBatches
    /\ resolution_cache' = [g \in AllIds |-> NotCached]
    /\ gids' = <<>>
    /\ pc' = <<>>
    /\ project' = <<>>
    /\ relationships' = <<>>
    /\ result' = EmptyResult
    /\ metrics' = [total_projects |-> 0, completed_projects |-> 0, failed_projects |-> 0,
                   api_projects |-> 0, relationships_enriched |-> 0]
    /\ trace' = <<>>
    /\ firstReturn' = [g \in AllIds |-> NoReturn]
    /\ geoReturned' = {}
    /\ UNCHANGED <<env, bpc, obj, geocoding_cache, running, disc, recon, run, req, more>>

RunsInit ==
    /\ gid_to_country_cache =
           [g \in AllIds |-> IF g = 1 THEN NoData
                             ELSE SafeData("Beta", "Beta Ridge", "Australia", <<1534, 271>>)]
    /\ relMenu = {RespNone}
    /\ scrapeMenu = {ScrapeEmpty}
    /\ mcMenu = {McNone}
    /\ geoMenu = {GeoFailure, GeoFull}
    /\ enable_geocoding = TRUE
    /\ batchMenu = Batches(1 .. MaxId)
    /\ batchesLeft = MaxBatches
    /\ InitAssembler
    /\ running = TRUE
    /\ hash_seed \in HashSeeds
    /\ saved = {}
    /\ InitDiscovery
    /\ InitRecon
    /\ InitRun
    /\ InitReq
    /\ InitMore
    /\ obj = NoProject

RunsNext == Next \/ Restart

RunsSpec == RunsInit /\ [][RunsNext]_vars

\* ------------------------------------------------- Application.run_assembly
\* The gids handed to run_assembly, and the batches its loop cuts them into.
AppGids == [i \in 1 .. MaxId |-> i]

NumBatches == (Len(AppGids) + AppBatchSize - 1) \div AppBatchSize

\* gids[i:i + batch_size]
BatchAt(i) == SubSeq(AppGids, i + 1, Min(i + AppBatchSize, Len(AppGids)))

\* process_batch calls made so far by the loop.
CallsMade == NumBatches - batchesLeft

\* Mutant: the loop does not look at the flag.
LoopHead_ignoresFlag ==
    /\ apc = "loop"
    /\ IF loop_i >= Len(AppGids)
       THEN apc' = "save" /\ batch' = batch
       ELSE apc' = "call" /\ batch' = BatchAt(loop_i)
    /\ UNCHANGED <<loop_i, all_projects, run_totals, stored, closed, cancelled_in_batch>>
    /\ UNCHANGED notRun

\* for i in range(0, len(gids), batch_size): if not self.running: break
LoopHead ==
    /\ apc = "loop"
    /\ IF loop_i >= Len(AppGids) \/ ~running
       THEN apc' = "save" /\ batch' = batch
       ELSE apc' = "call" /\ batch' = BatchAt(loop_i)
    /\ UNCHANGED <<loop_i, all_projects, run_totals, stored, closed, cancelled_in_batch>>
    /\ UNCHANGED notRun

\* results = assembler.process_batch(batch): the call
CallProcessBatch ==
    /\ apc = "call"
    /\ CallsMade = loop_i \div AppBatchSize
    /\ StartBatch(batch)

\* ... and what the loop does with the returned results
AfterBatch ==
    /\ apc = "call"
    /\ bpc = "idle"
    /\ CallsMade > loop_i \div AppBatchSize
    /\ all_projects' = all_projects \o result.projects
    /\ run_totals' = [completed |-> run_totals.completed + result.completed,
                      failed |-> run_totals.failed + result.failed]
    /\ loop_i' = loop_i + AppBatchSize
    /\ apc' = "loop"
    /\ UNCHANGED <<batch, stored, closed, cancelled_in_batch>>
    /\ UNCHANGED notRun

\* Mutant: a run that was told to stop returns without saving and closing.
SaveAndClose_onlyWhenRunning ==
    /\ apc = "save"
    /\ stored' = IF all_projects # <<>> /\ running THEN all_projects ELSE stored
    /\ closed' = running
    /\ apc' = "done"
    /\ UNCHANGED <<loop_i, batch, all_projects, run_totals, cancelled_in_batch>>
    /\ UNCHANGED notRun

\* if all_projects: storage.save_projects(all_projects) ...; assembler.close()
SaveAndClose ==
    /\ apc = "save"
    /\ stored' = IF all_projects # <<>> THEN all_projects ELSE stored
    /\ closed' = TRUE
    /\ apc' = "done"
    /\ UNCHANGED <<loop_i, batch, all_projects, run_totals, cancelled_in_batch>>
    /\ UNCHANGED notRun

\* SIGTERM or SIGINT, at any moment of the run.
_shutdown_handler ==
    /\ apc \in {"loop", "call", "save"}
    /\ running' = FALSE
    /\ cancelled_in_batch' = (cancelled_in_batch \/ bpc = "running")
    /\ UNCHANGED <<apc, loop_i, batch, all_projects, run_totals, stored, closed>>
    /\ UNCHANGED <<env, asm, hash_seed, saved, disc, recon, req, more>>

AppInit ==
    /\ gid_to_country_cache \in {World(1), World(2)}
    /\ relMenu = {RespNone, RespOwnership}
    /\ scrapeMenu = {ScrapeEmpty, ScrapeNamed}
    /\ mcMenu = {McNone}
    /\ geoMenu = {GeoFailure}
    /\ enable_geocoding = TRUE
    /\ batchMenu = {BatchAt(i * AppBatchSize) : i \in 0 .. (NumBatches - 1)}
    /\ batchesLeft = NumBatches
    /\ InitAssembler
    /\ obj = NoProject
    /\ InitApp
    /\ InitDiscovery
    /\ InitRecon
    /\ InitReq
    /\ InitMore
    /\ apc = "loop"
    /\ loop_i = 0
    /\ batch = <<>>
    /\ all_projects = <<>>
    /\ run_totals = [completed |-> 0, failed |-> 0]
    /\ stored = <<>>
    /\ closed = FALSE
    /\ cancelled_in_batch = FALSE

AppNext ==
    \/ LoopHead
    \/ CallProcessBatch
    \/ \E t \in DOMAIN pc : Start(t)
    \/ \E t \in DOMAIN pc : Tier1(t)
    \/ \E t \in DOMAIN pc : Tier2(t)
    \/ \E t \in DOMAIN pc : Tier3(t)
    \/ \E t \in DOMAIN pc : DirectScrape(t)
    \/ \E t \in DOMAIN pc : MapCenter(t)
    \/ \E t \in DOMAIN pc : Enrich(t)
    \/ \E t \in DOMAIN pc : GeoReturn(t)
    \/ \E t \in DOMAIN pc : Collect(t)
    \/ ReturnBatch
    \/ AfterBatch
    \/ SaveAndClose
    \/ _shutdown_handler

\* The pool's workers run, and the thread of run_assembly collects the futures,
\* returns from process_batch and goes on with its loop.
AppSpec ==
    /\ AppInit
    /\ [][AppNext]_vars
    /\ WF_vars(WorkerStep)
    /\ WF_vars(\E t \in DOMAIN pc : Collect(t))
    /\ WF_vars(ReturnBatch)
    /\ WF_vars(AfterBatch)

\* The thread of run_assembly itself goes on as well: it reaches the head of
\* the loop, makes the call, and saves and closes after the loop.
AppLiveSpec ==
    /\ AppSpec
    /\ WF_vars(LoopHead)
    /\ WF_vars(CallProcessBatch)
    /\ WF_vars(SaveAndClose)

\* ------------------------------------------- MiningHubClient._make_request
\* What one session.request call can meet.  The session's adapter retries
\* status codes only for idempotent methods, and both endpoints are POSTs, so
\* an error status comes back to raise_for_status.
Transport(kind, status, data) == [kind |-> kind, status |-> status, data |-> data]

JsonBodies == {"dict", "list", "empty"}

Transports ==
    {Transport("json", 200, d) : d \in JsonBodies}
    \cup {Transport("invalid_json", 200, None),
          Transport("timeout", NoStatus, None),
          Transport("http_error", 429, None),
          Transport("http_error", 503, None),
          Transport("http_error", 404, None),
          Transport("request_exception", NoStatus, None),
          Transport("exception", NoStatus, None)}

Transient(t) ==
    \/ t.kind \in {"timeout", "request_exception"}
    \/ t.kind = "http_error" /\ t.status \in {429, 503}

\* Response.__bool__ is Response.ok
ResponseTruthy(status) == status < 400

\* status_code = e.response.status_code if e.response else None
status_code(t) == IF ResponseTruthy(t.status) THEN t.status ELSE NoStatus

\* What the handlers of one attempt do: "return", "retry" or "raise".
AttemptOutcome(t) ==
    CASE t.kind = "json" -> "return"
      [] t.kind = "invalid_json" -> "return"
      [] t.kind = "timeout" -> "retry"
      [] t.kind = "http_error" ->
            IF status_code(t) = 429 THEN "retry"
            ELSE IF status_code(t) = NoStatus THEN "raise"   \* 500 <= None
            ELSE IF 500 <= status_code(t) /\ status_code(t) < 600 THEN "retry"
            ELSE "return"
      [] t.kind = "request_exception" -> "retry"
      [] OTHER -> "return"

ReturnedData(t) == IF t.kind = "json" THEN t.data ELSE None

\* One pass of "for attempt in range(retry_attempts + 1)".
Attempt ==
    /\ req_pc = "loop"
    /\ attempt <= retry_attempts
    /\ \E t \in Transports :
          /\ req_history' = Append(req_history, t)
          /\ CASE AttemptOutcome(t) = "return" ->
                     /\ req_pc' = "returned"
                     /\ req_value' = ReturnedData(t)
                     /\ attempt' = attempt
               [] AttemptOutcome(t) = "retry" ->
                     /\ req_pc' = "loop"
                     /\ req_value' = req_value
                     /\ attempt' = attempt + 1
               [] OTHER ->
                     /\ req_pc' = "raised"
                     /\ req_value' = req_value
                     /\ attempt' = attempt
    /\ UNCHANGED <<retry_attempts, endpoint, caller_value>>
    /\ UNCHANGED notReq

\* The loop is exhausted: "failed after N attempts", return None.
GiveUp ==
    /\ req_pc = "loop"
    /\ attempt > retry_attempts
    /\ req_pc' = "returned"
    /\ req_value' = None
    /\ UNCHANGED <<retry_attempts, endpoint, attempt, req_history, caller_value>>
    /\ UNCHANGED notReq

JsonTruthy(v) == v \in {"dict", "list"}

\* get_project_relationships / get_projects_by_country around _make_request
PublicResult(e, pc_, v) ==
    IF pc_ = "raised" THEN (IF e = "projects" THEN "empty_list" ELSE None)
    ELSE IF e = "projects" THEN (IF v = "list" THEN v ELSE "empty_list")
    ELSE (IF JsonTruthy(v) THEN v ELSE None)

PublicReturn ==
    /\ req_pc \in {"returned", "raised"}
    /\ caller_value' = PublicResult(endpoint, req_pc, req_value)
    /\ req_pc' = IF req_pc = "raised" THEN "done_after_raise" ELSE "done"
    /\ UNCHANGED <<retry_attempts, endpoint, attempt, req_history, req_value>>
    /\ UNCHANGED notReq

ReqInit ==
    /\ IdleAssembler
    /\ InitApp
    /\ InitDiscovery
    /\ InitRecon
    /\ InitRun
    /\ InitMore
    /\ retry_attempts \in 0 .. MaxRetries
    /\ endpoint \in {"relationships", "projects"}
    /\ attempt = 0
    /\ req_pc = "loop"
    /\ req_history = <<>>
    /\ req_value = None
    /\ caller_value = None

ReqNext == Attempt \/ GiveUp \/ PublicReturn

ReqSpec == ReqInit /\ [][ReqNext]_vars

\* ------------------------------------- GeocodingService, the pacing of requests
\* A lookup that missed the cache: _respect_rate_limit, the request, and the
\* assignment of last_request_time after the answer.  The workers of the pool
\* share the service; nothing serialises them.
PaceOutcomes == {"ok", "status", "exception"}

\* _respect_rate_limit: the time at which the worker's sleep, if any, ends
WakeTime(t, last) == IF t - last < DelaySeconds THEN last + DelaySeconds ELSE t

_respect_rate_limit(w) ==
    /\ wpc[w] = "idle"
    /\ Len(sent) < MaxRequests
    /\ wake' = [wake EXCEPT ![w] = WakeTime(now, last_request_time)]
    /\ wpc' = [wpc EXCEPT ![w] = "sleeping"]
    /\ UNCHANGED <<now, last_request_time, sent>>
    /\ UNCHANGED notPace

\* self.session.get(...) goes out once the sleep is over
SendRequest(w) ==
    /\ wpc[w] = "sleeping"
    /\ now >= wake[w]
    /\ sent' = Append(sent, now)
    /\ wpc' = [wpc EXCEPT ![w] = "requesting"]
    /\ UNCHANGED <<now, last_request_time, wake>>
    /\ UNCHANGED notPace

\* The answer: self.last_request_time = time.time() comes after session.get
\* returns, so an exception of session.get skips it.
Answer(w) ==
    /\ wpc[w] = "requesting"
    /\ \E outcome \in PaceOutcomes :
          last_request_time' = IF outcome = "exception" THEN last_request_time ELSE now
    /\ wpc' = [wpc EXCEPT ![w] = "idle"]
    /\ UNCHANGED <<now, wake, sent>>
    /\ UNCHANGED notPace

Tick ==
    /\ now < DelaySeconds + MaxTime
    /\ now' = now + 1
    /\ UNCHANGED <<last_request_time, wpc, wake, sent>>
    /\ UNCHANGED notPace

PaceInit ==
    /\ IdleAssembler
    /\ InitApp
    /\ InitDiscovery
    /\ InitRecon
    /\ InitRun
    /\ InitReq
    /\ InitOrph
    /\ InitPar
    /\ now = DelaySeconds
    /\ last_request_time = 0
    /\ wpc = [w \in 1 .. PaceWorkers |-> "idle"]
    /\ wake = [w \in 1 .. PaceWorkers |-> 0]
    /\ sent = <<>>

PaceNext ==
    \/ \E w \in DOMAIN wpc : _respect_rate_limit(w)
    \/ \E w \in DOMAIN wpc : SendRequest(w)
    \/ \E w \in DOMAIN wpc : Answer(w)
    \/ Tick

PaceSpec == PaceInit /\ [][PaceNext]_vars

\* ------------------------------------ the relationship tier, response shapes
\* The entries a family of a response can hold: two mappings and one value
\* that is no mapping.
FamilyEntries ==
    {Entry("c1", "Alpha", 40, TRUE), Entry("c2", "Bravo", NoPct, TRUE),
     Entry(None, None, NoPct, FALSE)}

Families == UNION {[1 .. n -> FamilyEntries] : n \in 0 .. MaxFamily}

\* 'option' is a list of lists.
OptionShapes ==
    {<<>>,
     << <<Entry("c3", "Charlie", NoPct, TRUE)>> >>,
     << <<Entry("c3", "Charlie", NoPct, TRUE), Entry("c1", "Alpha", 10, TRUE)>>,
        <<>>,
        <<Entry("c2", "Bravo", NoPct, TRUE)>> >>,
     << <<Entry("c3", "Charlie", NoPct, TRUE)>>, <<Entry(None, None, NoPct, FALSE)>> >>}

RelShapes ==
    {RespNone}
    \cup {RelResponse(TRUE, j, n, o) : j \in Families, n \in Families, o \in OptionShapes}

\* One process_batch call of one id; the Relationship Provider answers with
\* one fixed response, any of the shapes.
RelInit ==
    /\ gid_to_country_cache \in {World(3), World(4)}
    /\ relMenu \in {{r} : r \in RelShapes}
    /\ scrapeMenu = {ScrapeEmpty, ScrapeNamed}
    /\ mcMenu = {McNone}
    /\ geoMenu = {GeoFailure}
    /\ enable_geocoding = TRUE
    /\ batchMenu = Singletons(1 .. MaxId)
    /\ batchesLeft = 1
    /\ InitAssembler
    /\ InitRest
    /\ obj = NoProject

RelSpec == RelInit /\ [][Next]_vars

\* --------------------------- MiningProjectsProcessor, the orphaned projects
\* A cell of the frame that holds no value.
NaN == "NaN"

\* pd.isna
isna(v) == v = NaN

\* str() of a cell: the text of a missing value is 'nan'.
str(v) == IF v = NaN THEN "nan" ELSE v

\* One row of the frame of a country; the gid of a row is its position.
CompanyCells == {"7", "8", NaN}

NameCells == {"Acme", NaN}

Frames ==
    UNION {[1 .. n -> [company_id : CompanyCells, company_name : NameCells]] :
              n \in 0 .. MaxRows}

\* found_urls.xlsx, sheet Companies: the ids that have a URL.
RegistryCompanyIds == {"7", "8"}

\* What scrape_one found on a project page, and what the schema validator
\* says of the record made from it.  A company URL is made from the id.
CompanyProfileUrl(id) == IF id = None THEN None ELSE "/company-profile?gid=" \o id

Scraped(company_id, valid) ==
    [company_id |-> company_id, company_url |-> CompanyProfileUrl(company_id),
     valid |-> valid]

ScrapedRecords ==
    {Scraped(None, TRUE), Scraped("7", TRUE), Scraped("7", FALSE), Scraped("9", TRUE)}

ScrapeRuns == UNION {[1 .. n -> ScrapedRecords] : n \in 0 .. MaxScraped}

\* One iteration of the loop of _organize_by_companies.
OrganizeRow(gid, row, urls, data, orphans) ==
    LET company_id == str(row.company_id)
        company_name == row.company_name
    IN IF isna(company_id) \/ isna(company_name)
       THEN [company_data |-> data, orphaned_projects |-> orphans]
       ELSE IF company_id \notin urls
       THEN [company_data |-> data,
             orphaned_projects |->
                 Append(orphans, [gid |-> gid, company_id |-> company_id,
                                  company_name |-> company_name, company_url |-> None])]
       ELSE [company_data |->
                 [c \in DOMAIN data \cup {company_id} |->
                     IF c = company_id
                     THEN Append(IF c \in DOMAIN data THEN data[c] ELSE <<>>, gid)
                     ELSE data[c]],
             orphaned_projects |-> orphans]

_organize_by_companies ==
    /\ opc = "organize"
    /\ row_i < Len(df)
    /\ LET out == OrganizeRow(row_i + 1, df[row_i + 1], company_urls, company_data,
                              orphaned_projects)
       IN /\ company_data' = out.company_data
          /\ orphaned_projects' = out.orphaned_projects
    /\ row_i' = row_i + 1
    /\ UNCHANGED <<company_urls, df, scraped_projects, companies_file, all_rows, opc, notOrph>>

OrganizeDone ==
    /\ opc = "organize"
    /\ row_i = Len(df)
    /\ opc' = "scrape"
    /\ UNCHANGED <<company_urls, df, row_i, company_data, orphaned_projects,
                   scraped_projects, companies_file, all_rows, notOrph>>

\* The record of scraped_projects.json made from one scraper record.
LegacyRecord(r) ==
    LET company_id == IF Truthy(r.company_id) THEN r.company_id ELSE None
    IN [primary_company_id |-> company_id,
        primary_company_url |-> IF company_id # None THEN r.company_url ELSE None,
        scrape_success |-> TRUE, valid |-> r.valid]

\* _merge_scraped_projects_with_companies: a company that the file does not
\* hold yet is added with the URL of the project; the entries are unique by id.
RECURSIVE MergeScraped(_, _)
MergeScraped(companies, projects) ==
    IF projects = <<>> THEN companies
    ELSE LET p == Head(projects)
             known == \E i \in DOMAIN companies :
                          companies[i].company_id = p.primary_company_id
         IN IF ~p.scrape_success \/ ~Truthy(p.primary_company_id) \/ ~p.valid \/ known
            THEN MergeScraped(companies, Tail(projects))
            ELSE MergeScraped(Append(companies,
                                     [company_id |-> p.primary_company_id,
                                      company_url |-> p.primary_company_url]),
                              Tail(projects))

\* SCRAPE_MISSING_PROJECTS is on: the missing projects are scraped, the
\* records are written and merged into the companies file.
_scrape_missing_projects ==
    /\ opc = "scrape"
    /\ \E recs \in ScrapeRuns :
          LET written == [i \in DOMAIN recs |-> LegacyRecord(recs[i])]
          IN /\ scraped_projects' = written
             /\ companies_file' = MergeScraped(companies_file, written)
    /\ opc' = "unify"
    /\ UNCHANGED <<company_urls, df, row_i, company_data, orphaned_projects, all_rows,
                   notOrph>>

\* SCRAPE_MISSING_PROJECTS is off.
SkipScrape ==
    /\ opc = "scrape"
    /\ opc' = "unify"
    /\ UNCHANGED <<company_urls, df, row_i, company_data, orphaned_projects,
                   scraped_projects, companies_file, all_rows, notOrph>>

\* The position of the first entry of the companies file with the id, and of
\* the first successful scraped project of the company; 0 when there is none.
FirstCompany(companies, company_id) ==
    IF \E i \in DOMAIN companies : companies[i].company_id = company_id
    THEN CHOOSE i \in DOMAIN companies :
             /\ companies[i].company_id = company_id
             /\ \A j \in 1 .. (i - 1) : companies[j].company_id # company_id
    ELSE 0

IsProjectOf(p, company_id) == p.scrape_success /\ p.primary_company_id = company_id

FirstProject(projects, company_id) ==
    IF \E i \in DOMAIN projects : IsProjectOf(projects[i], company_id)
    THEN CHOOSE i \in DOMAIN projects :
             /\ IsProjectOf(projects[i], company_id)
             /\ \A j \in 1 .. (i - 1) : ~IsProjectOf(projects[j], company_id)
    ELSE 0

\* Mutant: the file of the scraped projects is not read.
_try_resolve_orphaned_company_url_companiesOnly(company_id, companies, projects) ==
    LET company == FirstCompany(companies, company_id)
    IN IF company # 0 THEN companies[company].company_url ELSE None

_try_resolve_orphaned_company_url(company_id, companies, projects) ==
    LET company == FirstCompany(companies, company_id)
        scraped == FirstProject(projects, company_id)
    IN IF company # 0 THEN companies[company].company_url
       ELSE IF scraped # 0 THEN projects[scraped].primary_company_url
       ELSE None

\* _get_all_projects_unified_dataframe, part 3: one row per orphaned project.
OrphanRow(orphan, companies, projects) ==
    LET resolved_url == _try_resolve_orphaned_company_url(orphan.company_id, companies,
                                                          projects)
    IN IF Truthy(resolved_url)
       THEN [orphan EXCEPT !.company_url = resolved_url] @@ [has_company_url |-> TRUE]
       ELSE orphan @@ [has_company_url |-> FALSE]

_get_all_projects_unified_dataframe ==
    /\ opc = "unify"
    /\ all_rows' = [i \in DOMAIN orphaned_projects |->
                       OrphanRow(orphaned_projects[i], companies_file, scraped_projects)]
    /\ opc' = "done"
    /\ UNCHANGED <<company_urls, df, row_i, company_data, orphaned_projects,
                   scraped_projects, companies_file, notOrph>>

OrphInit ==
    /\ IdleAssembler
    /\ InitApp
    /\ InitDiscovery
    /\ InitRecon
    /\ InitRun
    /\ InitReq
    /\ InitPace
    /\ InitPar
    /\ company_urls \in SUBSET RegistryCompanyIds
    /\ df \in Frames
    /\ row_i = 0
    /\ company_data = <<>>
    /\ orphaned_projects = <<>>
    /\ scraped_projects = <<>>
    /\ companies_file = <<>>
    /\ all_rows = <<>>
    /\ opc = "organize"

OrphNext ==
    \/ _organize_by_companies
    \/ OrganizeDone
    \/ _scrape_missing_projects
    \/ SkipScrape
    \/ _get_all_projects_unified_dataframe

OrphSpec == OrphInit /\ [][OrphNext]_vars

\* ---------------------------- PlaywrightParallelScraper.scrape_many_parallel
\* _launch: Playwright starts, Chromium is launched, a context is made; each
\* of the three can raise, and _launch is awaited before the try block.
LaunchOutcomes == {"ok", "no_browser", "no_context"}

\* What scrape_one does for one gid: it returns a record or raises.
ScrapeOutcomes == {"record", "raises"}

\* bound_scrape tasks that hold the semaphore.
InFlight == Cardinality({k \in DOMAIN tpc : tpc[k] = "scraping"})

_launch ==
    /\ ppc = "start"
    /\ \E outcome \in LaunchOutcomes :
          /\ browser' = IF outcome = "no_browser" THEN "none" ELSE "open"
          /\ ppc' = IF outcome = "ok" THEN "gather" ELSE "raised"
          /\ tpc' = IF outcome = "ok" THEN [k \in DOMAIN par_gids |-> "waiting"] ELSE tpc
    /\ UNCHANGED <<par_gids, max_concurrency, results, scrape_raised, notPar>>

\* async with semaphore: the tasks were created in the order of gids and
\* the semaphore wakes its waiters in that order.
Acquire(k) ==
    /\ ppc = "gather"
    /\ tpc[k] = "waiting"
    /\ \A j \in 1 .. (k - 1) : tpc[j] # "waiting"
    /\ InFlight < max_concurrency
    /\ tpc' = [tpc EXCEPT ![k] = "scraping"]
    /\ UNCHANGED <<par_gids, max_concurrency, results, scrape_raised, browser, ppc, notPar>>

\* scrape_one has ended: its record is appended, or its exception is caught
\* and printed; the semaphore is released.
bound_scrape(k) ==
    /\ ppc = "gather"
    /\ tpc[k] = "scraping"
    /\ \E outcome \in ScrapeOutcomes :
          IF outcome = "record"
          THEN results' = Append(results, par_gids[k]) /\ UNCHANGED scrape_raised
          ELSE scrape_raised' = scrape_raised \cup {par_gids[k]} /\ UNCHANGED results
    /\ tpc' = [tpc EXCEPT ![k] = "done"]
    /\ UNCHANGED <<par_gids, max_concurrency, browser, ppc, notPar>>

\* gather has returned; finally: await self._close(); return results
_close ==
    /\ ppc = "gather"
    /\ \A k \in DOMAIN tpc : tpc[k] = "done"
    /\ browser' = "closed"
    /\ ppc' = "returned"
    /\ UNCHANGED <<par_gids, max_concurrency, tpc, results, scrape_raised, notPar>>

ParInit ==
    /\ IdleAssembler
    /\ InitApp
    /\ InitDiscovery
    /\ InitRecon
    /\ InitRun
    /\ InitReq
    /\ InitPace
    /\ InitOrph
    /\ par_gids \in {[k \in 1 .. n |-> k] : n \in 0 .. MaxTasks}
    /\ max_concurrency \in 1 .. MaxConcurrency
    /\ tpc = <<>>
    /\ results = <<>>
    /\ scrape_raised = {}
    /\ browser = "none"
    /\ ppc = "start"

ParNext ==
    \/ _launch
    \/ \E k \in DOMAIN tpc : Acquire(k)
    \/ \E k \in DOMAIN tpc : bound_scrape(k)
    \/ _close

ParSpec == ParInit /\ [][ParNext]_vars

\* ------------------------------------------------------ ProjectDiscovery
\* Project ids of the discovery phase; 0 stands for a project entry without
\* 'gid', whose id str(project.get('gid', '')) is the empty string.
DiscIds == 1 .. MaxGid

BlankGid == 0

\* What one get_projects_by_country call gives to the loop: the projects of
\* the country ("ok"), the empty list after a failed request ("failed"), or a
\* list whose entries are no mappings, on which .get raises ("raise").
CountryOutcome(kind, ids) == [kind |-> kind, gids |-> ids]

CountryOutcomes ==
    {CountryOutcome("failed", {}), CountryOutcome("raise", {}),
     CountryOutcome("ok", {BlankGid, 1})}
    \cup {CountryOutcome("ok", S) : S \in SUBSET DiscIds}

\* country_gids of one loop iteration.
country_gids(outcome) == outcome.gids \ {BlankGid}

\* Mutant: a country that gives nothing drops what was collected.
update_gids_resetOnFailure(collected, outcome) ==
    IF outcome.kind = "ok" THEN collected \cup country_gids(outcome) ELSE {}

\* gids.update(country_gids), not reached when the iteration raised.
update_gids(collected, outcome) ==
    IF outcome.kind = "ok" THEN collected \cup country_gids(outcome) ELSE collected

\* One iteration of "for country in countries".
FetchCountry ==
    /\ dpc = "api"
    /\ Len(fetched) < Len(countries)
    /\ \E outcome \in CountryOutcomes :
          /\ api_gids' = update_gids(api_gids, outcome)
          /\ fetched' = Append(fetched, outcome)
          /\ discovery_metrics' =
                 [discovery_metrics EXCEPT !.errors =
                     IF outcome.kind = "raise" THEN @ + 1 ELSE @]
    /\ dpc' = IF Len(fetched') = Len(countries) THEN "urls" ELSE "api"
    /\ UNCHANGED <<countries, max_projects, registry, url_gids, all_gids>>
    /\ UNCHANGED notDisc

\* A missing or unreadable file gives the empty set.
_get_gids_from_urls ==
    /\ dpc = "urls"
    /\ url_gids' = IF registry.kind = "sheet" THEN registry.ids ELSE {}
    /\ discovery_metrics' =
           [discovery_metrics EXCEPT !.errors =
               IF registry.kind = "unreadable" THEN @ + 1 ELSE @]
    /\ dpc' = "combine"
    /\ UNCHANGED <<countries, max_projects, registry, api_gids, all_gids, fetched>>
    /\ UNCHANGED notDisc

\* list(api_gids)[:max_projects]: the first ids in the iteration order of the
\* set, which is any order.
FirstOfSet(S, n) == {T \in SUBSET S : Cardinality(T) = Min(n, Cardinality(S))}

\* The union, the cap, the metrics, and the return.
Combine ==
    /\ dpc = "combine"
    /\ LET union == api_gids \cup url_gids
       IN IF max_projects # 0 /\ Cardinality(union) > max_projects
          THEN all_gids' \in FirstOfSet(api_gids, max_projects)
          ELSE all_gids' = union
    /\ discovery_metrics' =
           [discovery_metrics EXCEPT !.total_projects = Cardinality(all_gids'),
                                     !.api_projects = Cardinality(api_gids)]
    /\ dpc' = "done"
    /\ UNCHANGED <<countries, max_projects, registry, api_gids, url_gids, fetched>>
    /\ UNCHANGED notDisc

\* find_all_gids is called on a configuration: two countries, any registry,
\* with or without a cap.
DiscInit ==
    /\ IdleAssembler
    /\ InitApp
    /\ InitRecon
    /\ InitRun
    /\ InitReq
    /\ InitMore
    /\ dpc = "api"
    /\ countries = <<"Australia", "Canada">>
    /\ max_projects \in 0 .. (MaxGid - 1)
    /\ registry \in {NoRegistry, BadRegistry}
                     \cup {[kind |-> "sheet", ids |-> S] : S \in SUBSET DiscIds}
    /\ api_gids = {}
    /\ url_gids = {}
    /\ all_gids = {}
    /\ fetched = <<>>
    /\ discovery_metrics = [total_projects |-> 0, api_projects |-> 0, errors |-> 0]

DiscNext == FetchCountry \/ _get_gids_from_urls \/ Combine

DiscSpec == DiscInit /\ [][DiscNext]_vars

\* ------------------------------------------ coverage report (reconciliation)
\* Ids of either kind, as the strings that astype(str) gives on both sides.
EntityIds == 1 .. MaxEntity

RegistryUrl(type, id) == <<"https://mininghub.com", type, id>>

\* _load_urls: dict(zip(df['ID'].astype(str), df['URL']))
UrlSheet(type, R) == [id \in R |-> RegistryUrl(type, id)]

ApiOnly == "In API but missing from URL file"
UrlOnly == "In URL file but missing from API"

MissingRow(id, type, status, url) ==
    [ID |-> id, Type |-> type, Status |-> status, URL |-> url]

\* The orders in which a loop can visit a set.
Orders(S) ==
    {q \in [1 .. Cardinality(S) -> S] : \A i, j \in DOMAIN q : q[i] = q[j] => i = j}

\* urls.get(id, '')
UrlGet(urls, id) == IF id \in DOMAIN urls THEN urls[id] ELSE ""

ApiOnlyRows(order, type) ==
    [i \in DOMAIN order |-> MissingRow(order[i], type, ApiOnly, None)]

UrlOnlyRows(order, type, urls) ==
    [i \in DOMAIN order |-> MissingRow(order[i], type, UrlOnly, UrlGet(urls, order[i]))]

\* available_project_ids[start_idx:end_idx]
Slice(seq, from, to) ==
    IF from >= Len(seq) THEN <<>>
    ELSE SubSeq(seq, from + 1, IF to < Len(seq) THEN to ELSE Len(seq))

_create_coverage_report ==
    /\ rpc = "start"
    /\ rpc' = IF test_mode THEN "test" ELSE "projects_api"
    /\ missing_data' = <<>>
    /\ UNCHANGED <<test_mode, api_project_ids, api_company_ids, processor_project_urls,
                   processor_company_urls>>
    /\ UNCHANGED notRecon

\* The loop of one difference set; it appends one row per id.
ProjectsInApi ==
    /\ rpc = "projects_api"
    /\ \E order \in Orders(api_project_ids \ DOMAIN processor_project_urls) :
           missing_data' = missing_data \o ApiOnlyRows(order, "Project")
    /\ rpc' = "projects_url"
    /\ UNCHANGED <<test_mode, api_project_ids, api_company_ids, processor_project_urls,
                   processor_company_urls>>
    /\ UNCHANGED notRecon

ProjectsInUrlFile_allUrlIds ==
    /\ rpc = "projects_url"
    /\ \E order \in Orders(DOMAIN processor_project_urls) :
           missing_data' =
               missing_data \o UrlOnlyRows(order, "Project", processor_project_urls)
    /\ rpc' = "companies_api"
    /\ UNCHANGED <<test_mode, api_project_ids, api_company_ids, processor_project_urls,
                   processor_company_urls>>
    /\ UNCHANGED notRecon

ProjectsInUrlFile ==
    /\ rpc = "projects_url"
    /\ \E order \in Orders(DOMAIN processor_project_urls \ api_project_ids) :
           missing_data' =
               missing_data \o UrlOnlyRows(order, "Project", processor_project_urls)
    /\ rpc' = "companies_api"
    /\ UNCHANGED <<test_mode, api_project_ids, api_company_ids, processor_project_urls,
                   processor_company_urls>>
    /\ UNCHANGED notRecon

CompaniesInApi ==
    /\ rpc = "companies_api"
    /\ \E order \in Orders(api_company_ids \ DOMAIN processor_company_urls) :
           missing_data' = missing_data \o ApiOnlyRows(order, "Company")
    /\ rpc' = "companies_url"
    /\ UNCHANGED <<test_mode, api_project_ids, api_company_ids, processor_project_urls,
                   processor_company_urls>>
    /\ UNCHANGED notRecon

CompaniesInUrlFile ==
    /\ rpc = "companies_url"
    /\ \E order \in Orders(DOMAIN processor_company_urls \ api_company_ids) :
           missing_data' =
               missing_data \o UrlOnlyRows(order, "Company", processor_company_urls)
    /\ rpc' = "done"
    /\ UNCHANGED <<test_mode, api_project_ids, api_company_ids, processor_project_urls,
                   processor_company_urls>>
    /\ UNCHANGED notRecon

\* Test mode: rows for a slice of the URL file's keys, whatever the API returned.
_create_test_missing_ids_report ==
    /\ rpc = "test"
    /\ \E keys \in Orders(DOMAIN processor_project_urls) :
           missing_data' =
               UrlOnlyRows(Slice(keys, start_idx, start_idx + max_test_projects),
                           "Project", processor_project_urls)
    /\ rpc' = "done"
    /\ UNCHANGED <<test_mode, api_project_ids, api_company_ids, processor_project_urls,
                   processor_company_urls>>
    /\ UNCHANGED notRecon

ReconInit ==
    /\ IdleAssembler
    /\ InitApp
    /\ InitDiscovery
    /\ InitRun
    /\ InitReq
    /\ InitMore
    /\ rpc = "start"
    /\ test_mode \in BOOLEAN
    /\ api_project_ids \in SUBSET EntityIds
    /\ api_company_ids \in SUBSET EntityIds
    /\ processor_project_urls \in {UrlSheet("project", R) : R \in SUBSET EntityIds}
    /\ processor_company_urls \in {UrlSheet("company", R) : R \in SUBSET EntityIds}
    /\ missing_data = <<>>

ReconNext ==
    \/ _create_coverage_report
    \/ ProjectsInApi
    \/ ProjectsInUrlFile
    \/ CompaniesInApi
    \/ CompaniesInUrlFile
    \/ _create_test_missing_ids_report

ReconSpec == ReconInit /\ [][ReconNext]_vars

\* ------------------------------------------- Project, copy-on-write methods
\* A Project as from_api_data builds it, under any sequence of calls of
\* update_stage, add_data_source and add_error.
UpdateStage(stage) ==
    /\ obj' = update_stage(obj, stage)
    /\ UNCHANGED <<env, batchesLeft, resolution_cache, gids, bpc, pc, project,
                   relationships, result, metrics, trace, firstReturn, geo, rest>>

AddDataSource(source) ==
    /\ obj' = add_data_source(obj, source)
    /\ UNCHANGED <<env, batchesLeft, resolution_cache, gids, bpc, pc, project,
                   relationships, result, metrics, trace, firstReturn, geo, rest>>

AddError(error) ==
    /\ Len(obj.errors) < MaxErrors
    /\ obj' = add_error(obj, error)
    /\ UNCHANGED <<env, batchesLeft, resolution_cache, gids, bpc, pc, project,
                   relationships, result, metrics, trace, firstReturn, geo, rest>>

StageInit ==
    /\ gid_to_country_cache = World(1)
    /\ relMenu = {}
    /\ scrapeMenu = {}
    /\ mcMenu = {}
    /\ geoMenu = {}
    /\ enable_geocoding = TRUE
    /\ batchMenu = {}
    /\ batchesLeft = 0
    /\ InitAssembler
    /\ InitRest
    /\ \E g \in 1 .. MaxId, k \in 2 .. Len(SafeDataSeq) :
          obj = from_api_data(SafeDataSeq[k], g)

StageNext ==
    \/ \E stage \in ProcessingStage : UpdateStage(stage)
    \/ \E source \in DataSource : AddDataSource(source)
    \/ AddError("geocoding failed")

StageSpec == StageInit /\ [][StageNext]_vars

\* =================================================================== claims

TierOrder == <<"relationship", "scrape", "operator">>

\* C1: within one resolve_companies call the tiers are attempted in the order
\* relationship, scrape, operator, and a tier is attempted only after every
\* earlier tier of that call returned an empty sequence.
C1_TiersInOrder ==
    \A t \in DOMAIN trace :
        LET L == trace[t].tiers
        IN /\ Len(L) <= Len(TierOrder)
           /\ \A i \in DOMAIN L :
                 /\ L[i].tier = TierOrder[i]
                 /\ i < Len(L) => L[i].empty
           /\ pc[t] = "tier2" => Len(L) = 1
           /\ pc[t] = "tier3" => Len(L) = 2

\* A call that reached the operator tier and got a relationship from it.
C1_Witness ==
    \E t \in DOMAIN trace :
        /\ Len(trace[t].tiers) = Len(TierOrder)
        /\ ~trace[t].tiers[Len(TierOrder)].empty
        /\ relationships[t] # <<>>

\* C2: once a resolve_companies call for an id has returned, a later call for
\* that id returns the same sequence and calls neither provider.
C2_Memoized ==
    \A t \in DOMAIN trace :
        (trace[t].later /\ pc[t] # "queued") =>
            /\ trace[t].tiers = <<>>
            /\ pc[t] \notin {"tier1", "tier2", "tier3"}
            /\ relationships[t] = firstReturn[gids[t]].rels

\* A later call for an id whose first resolution was the empty sequence.
C2_Witness ==
    \E t \in DOMAIN trace :
        /\ trace[t].later
        /\ pc[t] = "collected"
        /\ firstReturn[gids[t]].rels = <<>>

\* C3: resolve_companies never raises, whatever the safe data holds.
C3_NeverRaises == \A t \in DOMAIN trace : ~trace[t].raised

\* The rule of the claim: the first Ownership relationship that carries the
\* maximum percentage (absent = 0), else the first relationship.
ClaimedPrimary(rels) ==
    IF \E i \in DOMAIN rels : IsJV(rels[i])
    THEN rels[CHOOSE i \in DOMAIN rels :
                  /\ IsJV(rels[i])
                  /\ \A j \in DOMAIN rels : IsJV(rels[j]) => PctKey(rels[j]) <= PctKey(rels[i])
                  /\ \A j \in 1 .. (i - 1) :
                        IsJV(rels[j]) => PctKey(rels[j]) < PctKey(rels[i])].company_details
    ELSE rels[1].company_details

\* C4: every returned project with relationships has as primary company the
\* company that the primary-company rule selects.
C4_PrimaryByRule ==
    \A i \in DOMAIN result.projects :
        LET p == result.projects[i]
        IN p.company_relationships # <<>> =>
               p.primary_company = ClaimedPrimary(p.company_relationships)

ErrorsFor(g) == {i \in DOMAIN result.errors : result.errors[i].gid = g}

ProjectsFor(g) == {i \in DOMAIN result.projects : result.projects[i].gid = g}

\* C5: a pipeline that raised is counted in failed with one entry in errors,
\* and the project of every sibling whose pipeline succeeded is in the result.
C5_BatchIsolation ==
    \A t \in DOMAIN pc :
        pc[t] = "collected" =>
            /\ trace[t].raised =>
                  /\ Cardinality(ErrorsFor(gids[t])) = 1
                  /\ result.failed >= Cardinality({u \in DOMAIN pc :
                                         pc[u] = "collected" /\ trace[u].raised})
            /\ project[t] # NoProject =>
                  \E i \in DOMAIN result.projects : result.projects[i] = project[t]

\* A returned batch in which one pipeline raised and a sibling's project is kept.
C5_Witness ==
    /\ bpc = "idle"
    /\ \E t, u \in DOMAIN pc :
          /\ trace[t].raised
          /\ project[u] # NoProject
          /\ ProjectsFor(gids[u]) # {}

\* C6: the returned result accounts for every id exactly once.
C6_Accounting ==
    (bpc = "idle") =>
        /\ result.completed + result.failed = Len(gids)
        /\ result.completed = Len(result.projects)
        /\ result.failed = Len(result.errors)
        /\ \A t \in DOMAIN gids :
              /\ Cardinality(ProjectsFor(gids[t])) + Cardinality(ErrorsFor(gids[t])) = 1
              /\ project[t] = NoProject => Cardinality(ErrorsFor(gids[t])) = 1

\* A returned batch with one project and one id dropped without an exception.
C6_Witness ==
    /\ bpc = "idle"
    /\ result.completed = 1
    /\ result.failed = 1
    /\ \E t \in DOMAIN pc : project[t] = NoProject /\ ~trace[t].raised

\* C7: an id has a project exactly when safe data exists, or the resolver
\* returned relationships, or the scraper returned a record.
C7_DroppedOnlyIfNothing ==
    \A t \in DOMAIN pc :
        pc[t] \in {"finished", "collected"} =>
            ((\/ gid_to_country_cache[gids[t]].present
              \/ relationships[t] # <<>>
              \/ trace[t].scraped)
             <=> project[t] # NoProject)

AllProcessed == \A t \in DOMAIN pc : pc[t] \in {"finished", "collected"}

\* C8: never more than min(4, len(ids)) pipelines run at once, and every
\* submitted id is eventually processed.
C8_BoundedPool ==
    /\ [](Running <= Min(PoolWorkers, Len(gids)))
    /\ (bpc = "running") ~> AllProcessed

\* The pool is full and an id waits in the queue.
C8_Witness ==
    /\ Running = PoolWorkers
    /\ \E t \in DOMAIN pc : pc[t] = "queued"

\* C9: the data_sources of a project contain every earlier value of its
\* data_sources and the tag of every relationship attached to it.
C9_ProvenanceGrows ==
    /\ \A t \in DOMAIN project :
          project[t] # NoProject =>
              /\ \A i \in DOMAIN trace[t].dsHist :
                    trace[t].dsHist[i] \subseteq project[t].data_sources
              /\ RelSources(project[t].company_relationships)
                     \subseteq project[t].data_sources
    /\ \A i \in DOMAIN result.projects :
          RelSources(result.projects[i].company_relationships)
              \subseteq result.projects[i].data_sources

\* A returned project whose provenance grew while relationships were attached.
C9_Witness ==
    \E t \in DOMAIN project :
        /\ pc[t] = "collected"
        /\ project[t] # NoProject
        /\ Len(trace[t].dsHist) >= 2
        /\ trace[t].dsHist[1] # project[t].data_sources
        /\ project[t].company_relationships # <<>>

StageRank(stage) ==
    CASE stage = "discovered" -> 0
      [] stage = "assembling" -> 1
      [] stage = "assembled" -> 2
      [] stage \in {"completed", "failed"} -> 3

\* C10: no step applied to a Project moves processing_stage back to an
\* earlier stage.
C10_StageOneDirectional ==
    [][StageRank(obj.processing_stage) <= StageRank(obj'.processing_stage)]_vars

\* What the claim expects of the scrape tier for a provider result.
HasIdentity(s) == s.kind = "rec" /\ (Truthy(s.company_id) \/ Truthy(s.company_name))

\* C13: a resolve_companies call whose relationship tier was empty returns, for
\* a scraped record with a company id or name, exactly one relationship of
\* type Operator tagged scraper that carries the record's company name, and
\* gets nothing from the scrape tier for a record without id and name.
C13_ScrapeTier ==
    \A t \in DOMAIN trace :
        (Len(trace[t].tiers) >= 2 /\ pc[t] # "tier2") =>
            LET s == trace[t].rec
            IN /\ HasIdentity(s) =>
                     /\ Len(relationships[t]) = 1
                     /\ relationships[t][1].relationship_type = "operator"
                     /\ relationships[t][1].data_source = "scraper"
                     /\ Truthy(s.company_name) =>
                            relationships[t][1].company_name = s.company_name
                     /\ resolution_cache[gids[t]].rels = relationships[t]
               /\ ~HasIdentity(s) => trace[t].tiers[2].empty

\* A call that got its one relationship from a scraped record with a name.
C13_Witness ==
    \E t \in DOMAIN trace :
        /\ Len(trace[t].tiers) = 2
        /\ trace[t].rec = ScrapeNamed
        /\ Len(relationships[t]) = 1
        /\ relationships[t][1].company_name = "Acme"
        /\ pc[t] = "collected"

\* The operator companies of the output files and of the running process.
OperatorCompaniesSeen ==
    saved \cup OperatorCompanies({result.projects[i] : i \in DOMAIN result.projects})

\* C14: a resolve_companies call that reached the operator tier returns one
\* relationship of type Operator with percentage 100 tagged api when the safe
\* data has an operator, and the empty sequence when it has none; and one
\* operator name has one surrogate id in everything the program has resolved.
C14_OperatorFallback ==
    /\ \A t \in DOMAIN trace :
          (Len(trace[t].tiers) = 3 /\ pc[t] # "tier3") =>
              LET operator == gid_to_country_cache[gids[t]].operator
              IN IF Truthy(operator)
                 THEN /\ Len(relationships[t]) = 1
                      /\ relationships[t][1].relationship_type = "operator"
                      /\ relationships[t][1].percentage = FullPercentage
                      /\ relationships[t][1].data_source = "api"
                      /\ relationships[t][1].company_name = operator
                 ELSE relationships[t] = <<>>
    /\ \A a, b \in OperatorCompaniesSeen : a[1] = b[1] => a[2] = b[2]

\* The ids of every country whose call gave its projects.
ProviderIds ==
    UNION {fetched[i].gids \ {BlankGid} : i \in {j \in DOMAIN fetched : fetched[j].kind = "ok"}}

RegistryIds == registry.ids

\* C15: without a cap find_all_gids returns the union of the ids of every
\* country whose call succeeded and the ids of the registry, whatever happened
\* to the other countries.
C15_UnionOfSources ==
    (dpc = "done" /\ max_projects = 0) => all_gids = ProviderIds \cup RegistryIds

\* No cap, the first country failed, the second gave ids, the registry has an
\* id of its own, and all of them are returned.
C15_Witness ==
    /\ dpc = "done"
    /\ max_projects = 0
    /\ fetched[1].kind # "ok"
    /\ fetched[2].kind = "ok"
    /\ fetched[2].gids # {}
    /\ RegistryIds \ ProviderIds # {}
    /\ all_gids = ProviderIds \cup RegistryIds

\* C16: with a cap N and a union of more than N ids, find_all_gids returns N
\* ids of the union and prefers provider ids; a union of at most N ids is
\* returned whole.
C16_CapPrefersProvider ==
    (dpc = "done" /\ max_projects # 0) =>
        LET union == ProviderIds \cup RegistryIds
        IN IF Cardinality(union) > max_projects
           THEN /\ all_gids \subseteq union
                /\ Cardinality(all_gids) = max_projects
                /\ (all_gids \ ProviderIds # {}) => ProviderIds \subseteq all_gids
           ELSE all_gids = union

FrameFields ==
    {"country", "postcode", "iso3166_2", "county", "territory", "latitude", "longitude"}

NonEmpty(f, v) == IF f \in {"latitude", "longitude"} THEN v # NoCoord ELSE Truthy(v)

\* C11: when _maybe_enrich_location has applied a geocoding result, every
\* location field that was non-empty before has the value it had before.
C11_FillsOnlyEmpty ==
    \A t \in DOMAIN trace :
        trace[t].geoApplied =>
            \A f \in FrameFields :
                NonEmpty(f, trace[t].locBefore[f]) =>
                    project[t].location[f] = trace[t].locBefore[f]

\* C12: a location whose state is non-empty when _maybe_enrich_location is
\* entered has the same state when the pipeline is done.
C12_StateKept ==
    \A t \in DOMAIN trace :
        (pc[t] \in {"finished", "collected"} /\ project[t] # NoProject
         /\ Truthy(trace[t].locBefore.state)) =>
            project[t].location.state = trace[t].locBefore.state

\* A collected project that entered enrichment with a state and coordinates.
C12_Witness ==
    \E t \in DOMAIN trace :
        /\ pc[t] = "collected"
        /\ project[t] # NoProject
        /\ Truthy(trace[t].locBefore.state)
        /\ have_coords(trace[t].locBefore)
        /\ project[t].location.state = "Queensland"

\* C17: when the coverage report is done, every id that only the API has and
\* every id that only the URL file has owns exactly one row of its kind, with
\* the status of its side (and the URL of the file for the second), and an id
\* that both have, or neither has, owns none; projects and companies apart.
RowsOf(id, type) ==
    {i \in DOMAIN missing_data : missing_data[i].ID = id /\ missing_data[i].Type = type}

DifferenceRows(type, S, urls) ==
    \A id \in EntityIds :
        LET R == DOMAIN urls
            rows == RowsOf(id, type)
        IN  /\ id \in S \ R =>
                /\ Cardinality(rows) = 1
                /\ \A i \in rows : missing_data[i].Status = ApiOnly
            /\ id \in R \ S =>
                /\ Cardinality(rows) = 1
                /\ \A i \in rows : /\ missing_data[i].Status = UrlOnly
                                   /\ missing_data[i].URL = urls[id]
            /\ id \in S \cap R => rows = {}
            /\ id \notin S \cup R => rows = {}

ResultsTaken ==
    /\ bpc = "idle"
    /\ \A t \in DOMAIN gids :
           \/ \E i \in DOMAIN all_projects : all_projects[i].gid = gids[t]
           \/ \E i \in DOMAIN result.errors : result.errors[i].gid = gids[t]

AllTransient == \A i \in DOMAIN req_history : Transient(req_history[i])

C19_BoundedRetries ==
    /\ Len(req_history) <= retry_attempts + 1
    /\ AllTransient => req_pc \notin {"raised", "done_after_raise"}
    /\ (req_pc \in {"returned", "done"} /\ AllTransient) => req_value = None
    /\ (req_pc = "done" /\ AllTransient) =>
           caller_value = (IF endpoint = "projects" THEN "empty_list" ELSE None)

\* C20: a geocoder call that starts after a call for the same key has
\* returned makes no provider request: it returns at once, the cache is left
\* as it is, and what it returns is the cached value, 'no result' included.
C20_OncePerKey ==
    [][\A t \in DOMAIN pc :
          (/\ t \in DOMAIN pc'
           /\ pc[t] = "enrich"
           /\ pc'[t] # "enrich"
           /\ EnrichBranch(project[t].location) # "none"
           /\ GeoKey(project[t].location) \in geoReturned)
          => /\ pc'[t] = "finished"
             /\ geocoding_cache' = geocoding_cache
             /\ trace'[t].geoFromCache
             /\ trace'[t].geoGot = geocoding_cache[GeoKey(project[t].location)]]_vars

\* Two pipelines of one batch with the same key: the lookup of the first
\* failed, and the second was given 'no result' from the cache.
C20_Witness ==
    \E t, u \in DOMAIN pc :
        /\ t # u
        /\ pc[t] \in {"finished", "collected"}
        /\ pc[u] \in {"finished", "collected"}
        /\ EnrichBranch(trace[t].locBefore) # "none"
        /\ EnrichBranch(trace[u].locBefore) # "none"
        /\ GeoKey(trace[t].locBefore) = GeoKey(trace[u].locBefore)
        /\ ~trace[t].geoFromCache
        /\ trace[u].geoFromCache
        /\ trace[u].geoGot = NoResult

\* C21: any two consecutive requests to the geocoding provider are at least
\* delay_seconds apart.
C21_Paced ==
    \A i \in 1 .. (Len(sent) - 1) : sent[i + 1] - sent[i] >= DelaySeconds

\* C22: between two process_batch calls of run_assembly the metrics of the
\* assembler hold the sums of the returned completed and failed counts, and
\* total_projects holds the number of ids submitted so far, so completed plus
\* failed is never more than the total.
Submitted == Min(CallsMade * AppBatchSize, Len(AppGids))

C22_MetricsAccumulate ==
    apc = "loop" =>
        /\ metrics.completed_projects = run_totals.completed
        /\ metrics.failed_projects = run_totals.failed
        /\ metrics.total_projects = Submitted
        /\ metrics.completed_projects + metrics.failed_projects <= metrics.total_projects

\* The response the Relationship Provider gives in a run with one response.
TheResp == CHOOSE r \in relMenu : TRUE

EntriesOf(family) == {family[i] : i \in DOMAIN family}

RECURSIVE InnerEntries(_)
InnerEntries(option) ==
    IF option = <<>> THEN <<>>
    ELSE InnerEntries(SubSeq(option, 1, Len(option) - 1)) \o option[Len(option)]

RECURSIVE InnerLengths(_)
InnerLengths(option) ==
    IF option = <<>> THEN 0 ELSE Len(Head(option)) + InnerLengths(Tail(option))

\* Every entry of the response is a mapping.
WellFormed(resp) ==
    /\ resp.present
    /\ \A e \in EntriesOf(resp.jv) \cup EntriesOf(resp.nsrs)
                \cup EntriesOf(InnerEntries(resp.option)) : e.ok

ExpectedTypes(resp) ==
    [i \in DOMAIN resp.jv |-> "jv"] \o [i \in DOMAIN resp.nsrs |-> "nsr"]
    \o [i \in 1 .. InnerLengths(resp.option) |-> "option"]

PastTier1(t) == pc[t] \notin {"queued", "tier1"}

\* C23: for a well-formed response the relationship tier gives one
\* relationship per entry: as many as the ownership entries, the royalty
\* entries and the entries of the inner option sequences together, in that
\* order, each tagged with the source 'relationships' and the type of its
\* family.
C23_OnePerEntry ==
    \A t \in DOMAIN pc :
        (PastTier1(t) /\ WellFormed(TheResp)) =>
            LET entries == TheResp.jv \o TheResp.nsrs \o InnerEntries(TheResp.option)
                types == ExpectedTypes(TheResp)
                n == Len(TheResp.jv) + Len(TheResp.nsrs) + InnerLengths(TheResp.option)
            IN IF n = 0
               THEN trace[t].tiers[1] = TierEntry("relationship", <<>>)
               ELSE /\ trace[t].tiers = <<[tier |-> "relationship", empty |-> FALSE]>>
                    /\ firstReturn[gids[t]].returned
                    /\ LET rels == firstReturn[gids[t]].rels
                       IN /\ Len(rels) = n
                          /\ \A i \in 1 .. n :
                                /\ rels[i].company_id = entries[i].id
                                /\ rels[i].company_name = entries[i].company_name
                                /\ rels[i].relationship_type = types[i]
                                /\ rels[i].data_source = "relationships"

\* A response with entries in all three families and more than one inner
\* option sequence has been converted.
C23_Witness ==
    \E t \in DOMAIN pc :
        /\ PastTier1(t)
        /\ WellFormed(TheResp)
        /\ Len(TheResp.jv) = MaxFamily
        /\ TheResp.nsrs # <<>>
        /\ Len(TheResp.option) > 1
        /\ Len(firstReturn[gids[t]].rels) > MaxFamily + 2

\* Some entry of the response is no mapping.
Malformed(resp) ==
    /\ resp.present
    /\ \E e \in EntriesOf(resp.jv) \cup EntriesOf(resp.nsrs)
                \cup EntriesOf(InnerEntries(resp.option)) : ~e.ok

NoneFromProvider(rels) == \A i \in DOMAIN rels : rels[i].data_source # "relationships"

\* C24: when an entry of the response cannot be converted, the relationship
\* tier yields nothing: the resolver goes on to the scrape tier with no
\* relationship and nothing cached, the step it would take after an absent
\* response, and no relationship of the provider is returned or cached later.
C24_AllOrNothing ==
    [][Malformed(TheResp) =>
          /\ \A t \in DOMAIN pc :
                (t \in DOMAIN pc' /\ pc[t] = "tier1" /\ pc'[t] # "tier1") =>
                    /\ pc'[t] = "tier2"
                    /\ relationships'[t] = <<>>
                    /\ trace'[t].tiers = <<TierEntry("relationship", <<>>)>>
                    /\ resolution_cache' = resolution_cache
                    /\ firstReturn' = firstReturn
                    /\ project' = project
          /\ \A g \in AllIds :
                /\ CacheHit(resolution_cache', g) =>
                       NoneFromProvider(resolution_cache'[g].rels)
                /\ firstReturn'[g].returned => NoneFromProvider(firstReturn'[g].rels)]_vars

\* A response whose first ownership entry is a mapping and whose second is
\* not: the pipeline has gone on to the scrape tier.
C24_Witness ==
    \E t \in DOMAIN pc :
        /\ Malformed(TheResp)
        /\ Len(TheResp.jv) > 1
        /\ TheResp.jv[1].ok
        /\ pc[t] = "tier2"
        /\ relationships[t] = <<>>
        /\ ~CacheHit(resolution_cache, gids[t])

\* C25: every project of a returned batch has the stage Completed, the
\* minimal project built from the scraper included.
C25_ReturnedCompleted ==
    \A i \in DOMAIN result.projects : result.projects[i].processing_stage = "completed"

\* A minimal project, created from the scraper with the stage Discovered, is
\* among the projects of the result.
C25_Witness ==
    \E t \in DOMAIN pc :
        /\ pc[t] = "collected"
        /\ trace[t].scraped
        /\ ~gid_to_country_cache[gids[t]].present
        /\ \E i \in DOMAIN result.projects :
              /\ result.projects[i] = project[t]
              /\ result.projects[i].data_sources = {"scraper"}

\* The answers of the map page and of the geocoding provider in a run where
\* each has one answer.
TheMc == CHOOSE m \in mcMenu : TRUE

TheGeo == CHOOSE g \in geoMenu : TRUE

\* Everything of project p but its location is as in q.
SameButLocation(p, q) == [p EXCEPT !.location = q.location] = q

\* C26: a map lookup that raises or gives nothing, and a geocoding request
\* that fails, leave the location as it was; the pipeline goes on and the
\* project is returned as Completed.  A map lookup that gives a center
\* changes the latitude, the longitude and a location_source that was unset,
\* and nothing else.
C26_LookupFailures ==
    [][\A t \in DOMAIN pc :
          LET p == project[t]
              q == project'[t]
          IN /\ (pc[t] = "finalize" /\ pc'[t] # "finalize") =>
                    /\ pc'[t] = "enrich"
                    /\ SameButLocation(p, q)
                    /\ TheMc.kind # "center" => q.location = p.location
                    /\ [q.location EXCEPT !.latitude = p.location.latitude,
                                          !.longitude = p.location.longitude,
                                          !.location_source = p.location.location_source]
                          = p.location
                    /\ Truthy(p.location.location_source) =>
                           q.location.location_source = p.location.location_source
             /\ (pc[t] = "geocall" /\ pc'[t] # "geocall" /\ ~TheGeo.ok) =>
                    /\ pc'[t] = "finished"
                    /\ q.location = p.location
                    /\ q.processing_stage = "completed"
             /\ (pc[t] = "finished" /\ pc'[t] = "collected" /\ p # NoProject) =>
                    /\ result'.projects = Append(result.projects, p)
                    /\ result'.failed = result.failed]_vars

\* The map lookup raised and the geocoding request failed, and the project,
\* its location as the safe data gave it, is in the result.
C26_Witness ==
    \E t \in DOMAIN pc :
        /\ pc[t] = "collected"
        /\ TheMc.kind = "raise"
        /\ ~TheGeo.ok
        /\ project[t] # NoProject
        /\ NeedsMapCenter(project[t].location)
        /\ EnrichBranch(trace[t].locBefore) = "forward"
        /\ project[t].location = trace[t].locBefore
        /\ result.completed = 1

\* The row holds a company id and a company name.
HasCompany(row) == row.company_id # NaN /\ row.company_name # NaN

\* How often the project of row g is in the list of company c.
InList(g, c) ==
    IF c \in DOMAIN company_data
    THEN Cardinality({k \in DOMAIN company_data[c] : company_data[c][k] = g})
    ELSE 0

InOrphans(g) == Cardinality({k \in DOMAIN orphaned_projects : orphaned_projects[k].gid = g})

\* The URLs the scraped data of the run holds for a company.
ScrapedUrls(company_id) ==
    ({companies_file[j].company_url :
         j \in {k \in DOMAIN companies_file : companies_file[k].company_id = company_id}}
     \cup {scraped_projects[j].primary_company_url :
              j \in {k \in DOMAIN scraped_projects :
                        /\ scraped_projects[k].scrape_success
                        /\ scraped_projects[k].primary_company_id = company_id}})
    \ {None}

C28_KeyedById ==
    /\ [][\A t \in DOMAIN pc :
             (/\ t \in DOMAIN pc'
              /\ pc[t] = "queued"
              /\ pc'[t] # "queued"
              /\ firstReturn[gids[t]].returned)
             => /\ relationships'[t] = firstReturn[gids[t]].rels
                /\ pc'[t] \notin {"tier1", "tier2", "tier3"}
                /\ trace'[t].tiers = <<>>]_vars
    /\ [](\A t \in DOMAIN pc : trace[t].later => trace[t].tiers = <<>>)

\* The first call for the id returned nothing, from data without an operator;
\* the later call is handed data with an operator and returns nothing again.
C28_Witness ==
    \E t \in DOMAIN pc :
        /\ trace[t].later
        /\ pc[t] \notin {"queued", "tier1", "tier2", "tier3"}
        /\ relationships[t] = <<>>
        /\ firstReturn[gids[t]].rels = <<>>
        /\ Truthy(gid_to_country_cache[gids[t]].operator)
        /\ ~OperatorTierRaises(gid_to_country_cache[gids[t]])

\* The ids of the batches that ran.
RanGids == {AppGids[i] : i \in 1 .. Submitted}

C30_BoundedAndClosed ==
    /\ InFlight <= max_concurrency
    /\ ppc = "returned" =>
          /\ {results[i] : i \in DOMAIN results}
                = {par_gids[k] : k \in DOMAIN par_gids} \ scrape_raised
          /\ Len(results) + Cardinality(scrape_raised) = Len(par_gids)
    /\ ppc \in {"returned", "raised"} => browser # "open"

====
